---- MODULE Spec2Model ----
(***************************************************************************)
(* A model of the download orchestration and language verification of the *)
(* ScaP scraper (src/scraper.py, src/language_guard.py).                   *)
(*                                                                         *)
(* Six specifications share the module's variables:                       *)
(*   Spec        one caller of StreamScraper.start_download working        *)
(*               through a season (episodes, mirrors, _download_video),    *)
(*               with request_cancel and reset_session arriving from the   *)
(*               web layer at any time;                                    *)
(*   SpecEntry   the entry points racing on one scraper: two callers of    *)
(*               start_download, one of download_direct_voe, and the web   *)
(*               layer's request_cancel and reset_session;                 *)
(*   SpecStatus  one DownloadStatus record under arbitrary calls of its    *)
(*               methods;                                                  *)
(*   SpecVerify  language_guard.verify_language as a function of the       *)
(*               probe data and the outcomes of the external tools;        *)
(*   SpecSelect  the variant selector of language_guard (pick_best,        *)
(*               sort_by_preference, pick_best_with_quality) as functions  *)
(*               of the priority list and the variants;                    *)
(*   SpecLabel   the label and file-name functions (guess_audio_and_dub,   *)
(*               tag_variant, strip_language_tag_suffix) as functions of   *)
(*               the text they are given.                                  *)
(***************************************************************************)
EXTENDS Integers, Sequences, FiniteSets, TLC

VARIABLES
    status,      \* StreamScraper.download_status: the DownloadStatus record
    rdConfig,    \* "none" | "free" | "premium": real_debrid / use_real_debrid_priority
    pc,          \* thread -> position in start_download / download_direct_voe
    loop,        \* thread -> locals of _process_season's episode and mirror loops
    dv,          \* thread -> locals of the running _download_video call
    outFile,     \* thread -> what lies at the current task.output_path
    cancelPhase, \* thread -> "none" | "requested" | "polled" (history, see RequestCancel)
    resets,      \* number of reset_session calls made by the web layer
    lastCall,    \* SpecStatus: the last DownloadStatus method called, with its arguments
    vin,         \* SpecVerify: the input of verify_language
    vout,        \* SpecVerify: its result
    pin,         \* SpecSelect, SpecLabel: the arguments of the language function called
    pout,        \* SpecSelect, SpecLabel: the function called and what it returned
    ul,          \* SpecUnrestrict: the locals of a RealDebrid.unrestrict_link call
    urlLog       \* SpecLog: _logged_urls, the unsupported-URL file and the workers

vars == <<status, rdConfig, pc, loop, dv, outFile, cancelPhase, resets, lastCall, vin, vout,
          pin, pout, ul, urlLog>>

orchVars == <<rdConfig, pc, loop, dv, outFile, cancelPhase, resets>>

auxVars == <<ul, urlLog>>

(***************************************************************************)
(* Bounds of the model.                                                    *)
(***************************************************************************)
MaxEpisodes == 2    \* new episodes of the season _process_season works through
MaxMirrors == 2     \* stream URLs extract_stream_urls returns for one episode
MaxResets == 1      \* reset_session calls the web layer makes

\* _download_video's max_retries (its default, and what _process_season passes).
MaxRetries == 3

\* Python's None, where the model compares it with strings, and as the
\* default of update's counters (no counter is negative).
None == "None"
NoValue == -1

(***************************************************************************)
(* DownloadStatus (src/scraper.py:71-138).  Every method runs under the    *)
(* record's lock, so each is one atomic step on the record.                *)
(***************************************************************************)
DownloadStatusInit ==
    [is_downloading |-> FALSE, current_title |-> "", progress |-> 0,
     total_episodes |-> 0, current_episode |-> 0, status_message |-> "",
     cancel_requested |-> FALSE]

\* update(title="", progress=None, current_episode=None, total_episodes=None,
\* status_message=""): a falsy title or message and a None counter are skipped.
StatusUpdateBlanking(s, title, progress, current_episode, total_episodes, status_message) ==
    [s EXCEPT !.current_title = title,
              !.progress = IF progress # NoValue THEN progress ELSE @,
              !.current_episode = IF current_episode # NoValue THEN current_episode ELSE @,
              !.total_episodes = IF total_episodes # NoValue THEN total_episodes ELSE @,
              !.status_message = status_message]

StatusUpdate(s, title, progress, current_episode, total_episodes, status_message) ==
    [s EXCEPT !.current_title = IF title # "" THEN title ELSE @,
              !.progress = IF progress # NoValue THEN progress ELSE @,
              !.current_episode = IF current_episode # NoValue THEN current_episode ELSE @,
              !.total_episodes = IF total_episodes # NoValue THEN total_episodes ELSE @,
              !.status_message = IF status_message # "" THEN status_message ELSE @]

StatusMessage(s, m) == StatusUpdate(s, "", NoValue, NoValue, NoValue, m)

StatusStartDownload(s) ==
    [s EXCEPT !.is_downloading = TRUE, !.progress = 0, !.current_episode = 0,
              !.status_message = "Download gestartet"]

StatusFinishKeepsCancel(s) ==
    [s EXCEPT !.is_downloading = FALSE, !.progress = 100,
              !.status_message = "Download abgeschlossen"]

StatusFinishDownload(s) ==
    [s EXCEPT !.is_downloading = FALSE, !.progress = 100,
              !.cancel_requested = FALSE,
              !.status_message = "Download abgeschlossen"]

\* request_cancel: the record after the call; the call returns s.is_downloading.
StatusRequestCancelAlways(s) ==
    [s EXCEPT !.cancel_requested = TRUE, !.status_message = "Abbruch angefordert..."]

StatusRequestCancel(s) ==
    IF s.is_downloading
    THEN [s EXCEPT !.cancel_requested = TRUE,
                   !.status_message = "Abbruch angefordert..."]
    ELSE s

StatusIsCancelRequested(s) == s.cancel_requested

\* get_status: the snapshot holds the seven fields of the record.
StatusGetStatus(s) ==
    [is_downloading |-> s.is_downloading, current_title |-> s.current_title,
     progress |-> s.progress, current_episode |-> s.current_episode,
     total_episodes |-> s.total_episodes, status_message |-> s.status_message,
     cancel_requested |-> s.cancel_requested]

(***************************************************************************)
(* Threads.  A caller runs StreamScraper.start_download (app.py starts it  *)
(* on a thread of its own per request); "voe" runs download_direct_voe.    *)
(***************************************************************************)
Callers == {"c1", "c2"}
Threads == Callers \cup {"voe"}

\* Between DownloadStatus.start_download and finish_download of its own call.
BatchPcs ==
    {"begun", "series", "season", "episode", "mirror", "dv_head", "dv_rd",
     "dv_fb_rd", "dv_ytdl", "dv_fb_max", "dv_verify", "dv_ret", "join",
     "except", "reset", "finally", "finally_raise", "v_begun", "v_unrestrict",
     "v_ret"}

Running(t) == pc[t] \in BatchPcs

\* Positions whose step starts a transfer: the unrestrict request, the
\* extraction tool's download, the fallback downloader.
TransferPcs == {"dv_rd", "dv_fb_rd", "dv_ytdl", "dv_fb_max", "v_unrestrict"}

(***************************************************************************)
(* URLs.  "voe" is an https://voe.sx/ link (is_voe, and one of the         *)
(* prefixes line 646 tests), "other" a link to any other host, "direct"    *)
(* the link the unrestrict service returns, "null" Python's None.          *)
(***************************************************************************)
StreamUrls == {"voe", "other"}
IsVoe(url) == url = "voe"
HasDebridPrefix(url) == url = "voe"

LoopInit == [nEp |-> 0, ep |-> 0, nMir |-> 0, mir |-> 0, attempts |-> <<>>, failed |-> <<>>]

\* The locals of _download_video: iters counts passes of the while loop,
\* ytdl the transfers the extraction tool was asked for, fb the calls of
\* _try_voe_fallback, xfer names the transfer that succeeded, vfy the
\* verifier's verdict on it, err the text of what the extraction tool raised
\* last, result is the value returned (read once the call has returned).
DvInit(url) ==
    [url |-> url, original_url |-> IF IsVoe(url) THEN url ELSE None,
     is_voe |-> IsVoe(url), retries |-> 0, rd_failed |-> FALSE, iters |-> 0,
     ytdl |-> 0, fb |-> 0, xfer |-> "none", vfy |-> "none", err |-> "none",
     result |-> FALSE]

DvIdle == DvInit("null")

\* Where _download_video returns to.
ReturnPc(t) == IF t \in Callers THEN "dv_ret" ELSE "v_ret"

\* return <value> from _download_video.
DvReturn(t, value) ==
    /\ dv' = [dv EXCEPT ![t].result = value]
    /\ pc' = [pc EXCEPT ![t] = ReturnPc(t)]

(***************************************************************************)
(* StreamScraper.start_download (src/scraper.py:1026-1041).                *)
(***************************************************************************)
\* Line 1028: the unlocked read of is_downloading, and the raise.
StartDownloadCheck(t) ==
    /\ pc[t] = "idle"
    /\ pc' = [pc EXCEPT ![t] = IF status.is_downloading THEN "raised_busy" ELSE "try"]
    /\ UNCHANGED <<status, rdConfig, loop, dv, outFile, cancelPhase, resets, lastCall, vin, vout, pin, pout, auxVars>>

\* Line 1032.
BatchBegin(t) ==
    /\ pc[t] = "try"
    /\ status' = StatusStartDownload(status)
    /\ pc' = [pc EXCEPT ![t] = "begun"]
    /\ UNCHANGED <<rdConfig, loop, dv, outFile, cancelPhase, resets, lastCall, vin, vout, pin, pout, auxVars>>

\* Line 1033.
BatchAnnounce(t) ==
    /\ pc[t] = "begun"
    /\ status' = StatusMessage(status, "Starte Download...")
    /\ pc' = [pc EXCEPT ![t] = "series"]
    /\ UNCHANGED <<rdConfig, loop, dv, outFile, cancelPhase, resets, lastCall, vin, vout, pin, pout, auxVars>>

\* Line 1034, process_series up to the submission of the season: it returns
\* False when the series page cannot be loaded or lists no season, hands the
\* season to the pool, or is left by an exception: process_series catches
\* Exception itself (lines 1022-1024), so what reaches start_download is an
\* error raised while handling one (caught at line 1035, "except") or a
\* BaseException such as KeyboardInterrupt, which line 1035 does not catch.
\* hasSeason: the series page lists a season.
ProcessSeries(t, hasSeason) ==
    /\ pc[t] = "series"
    /\ \E next \in {"finally", "except"} \cup (IF hasSeason THEN {"season"} ELSE {}) :
           pc' = [pc EXCEPT ![t] = next]
    /\ UNCHANGED <<status, rdConfig, loop, dv, outFile, cancelPhase, resets, lastCall, vin, vout, pin, pout, auxVars>>

\* The pool has drained (the with block of lines 985-1010 waits for it):
\* process_series returns, or an exception leaves it as above.
SeasonJoin(t) ==
    /\ pc[t] = "join"
    /\ \E next \in {"finally", "except"} :
           pc' = [pc EXCEPT ![t] = next]
    /\ UNCHANGED <<status, rdConfig, loop, dv, outFile, cancelPhase, resets, lastCall, vin, vout, pin, pout, auxVars>>

\* Line 1036.
BatchError(t) ==
    /\ pc[t] = "except"
    /\ status' = StatusMessage(status, "Fehler")
    /\ pc' = [pc EXCEPT ![t] = "reset"]
    /\ UNCHANGED <<rdConfig, loop, dv, outFile, cancelPhase, resets, lastCall, vin, vout, pin, pout, auxVars>>

\* reset_session (lines 1043-1065): line 1059 replaces the status record
\* by a fresh DownloadStatus.
ResetSession(s) == DownloadStatusInit

\* Lines 1038-1039: the session is reset and the exception raised again.
BatchReset(t) ==
    /\ pc[t] = "reset"
    /\ status' = ResetSession(status)
    /\ pc' = [pc EXCEPT ![t] = "finally_raise"]
    /\ UNCHANGED <<rdConfig, loop, dv, outFile, cancelPhase, resets, lastCall, vin, vout, pin, pout, auxVars>>

\* Lines 1040-1041 (and 1534-1535 of download_direct_voe): the finally,
\* after which the call returns ("done") or the exception caught at line
\* 1035 goes on to the caller ("raised").
FinallyPcs == {"finally", "finally_raise"}
EndPcs == {"done", "raised"}

BatchEnd(t) ==
    /\ pc[t] \in FinallyPcs
    /\ status' = StatusFinishDownload(status)
    /\ pc' = [pc EXCEPT ![t] = IF pc[t] = "finally" THEN "done" ELSE "raised"]
    /\ cancelPhase' = [cancelPhase EXCEPT ![t] = "none"]
    /\ UNCHANGED <<rdConfig, loop, dv, outFile, resets, lastCall, vin, vout, pin, pout, auxVars>>

(***************************************************************************)
(* StreamScraper._process_season (src/scraper.py:1229-1369), run by the    *)
(* pool for the season process_series submitted.  maxEp and maxMir bound   *)
(* what the catalogue pages yield.                                         *)
(***************************************************************************)
\* Lines 1233-1326: the episodes still to download.  None: return False.
ProcessSeason(t, maxEp) ==
    /\ pc[t] = "season"
    /\ \E n \in 0..maxEp :
           /\ loop' = [loop EXCEPT ![t] = [LoopInit EXCEPT !.nEp = n]]
           /\ pc' = [pc EXCEPT ![t] = IF n = 0 THEN "join" ELSE "episode"]
    /\ UNCHANGED <<status, rdConfig, dv, outFile, cancelPhase, resets, lastCall, vin, vout, pin, pout, auxVars>>

\* Lines 1328-1336: the next episode of the for loop, its stream URLs
\* fetched; an episode without any is recorded as failed.  After the last
\* episode the season returns True (line 1365).  An episode whose output
\* path exists was left out of the list (lines 1284-1286), so nothing lies
\* at the path of the episode now begun.
NextEpisode(t, maxMir) ==
    /\ pc[t] = "episode"
    /\ IF loop[t].ep = loop[t].nEp
       THEN /\ pc' = [pc EXCEPT ![t] = "join"]
            /\ UNCHANGED <<loop, outFile>>
       ELSE \E m \in 0..maxMir :
                /\ loop' = [loop EXCEPT
                       ![t].ep = @ + 1, ![t].nMir = m, ![t].mir = 0,
                       ![t].attempts = <<>>,
                       ![t].failed = IF m = 0 THEN Append(@, loop[t].ep + 1) ELSE @]
                /\ pc' = [pc EXCEPT ![t] = IF m = 0 THEN "episode" ELSE "mirror"]
                /\ outFile' = [outFile EXCEPT ![t] = "none"]
    /\ UNCHANGED <<status, rdConfig, dv, cancelPhase, resets, lastCall, vin, vout, pin, pout, auxVars>>

\* Lines 601-626 of _download_video: a task whose url is no string returns
\* False before the loop.
DvCall(t, url) ==
    IF url = "null"
    THEN /\ dv' = [dv EXCEPT ![t] = [DvInit(url) EXCEPT !.result = FALSE]]
         /\ pc' = [pc EXCEPT ![t] = ReturnPc(t)]
    ELSE /\ dv' = [dv EXCEPT ![t] = DvInit(url)]
         /\ pc' = [pc EXCEPT ![t] = "dv_head"]

\* Lines 1355-1357: failed_downloads.append for the episode no mirror of
\* which gave a file.
RecordFailureNever(failed, ep) == failed
RecordFailure(failed, ep) == Append(failed, ep)

\* Lines 1340-1348 and 1355-1357: the next mirror of the episode becomes a
\* DownloadTask and _download_video is called on it; with no mirror left
\* (success is still False) the episode is recorded as failed.
NextMirror(t) ==
    /\ pc[t] = "mirror"
    /\ IF loop[t].mir < loop[t].nMir
       THEN \E url \in StreamUrls :
                /\ loop' = [loop EXCEPT ![t].mir = @ + 1]
                /\ DvCall(t, url)
       ELSE /\ loop' = [loop EXCEPT ![t].failed = RecordFailure(@, loop[t].ep)]
            /\ pc' = [pc EXCEPT ![t] = "episode"]
            /\ UNCHANGED dv
    /\ UNCHANGED <<status, rdConfig, outFile, cancelPhase, resets, lastCall, vin, vout, pin, pout, auxVars>>

\* Lines 1348-1353: a True result sets success and breaks out of the mirror
\* loop, a False one goes on to the next mirror.
AfterMirrorNoBreak(result) == "mirror"
AfterMirror(result) == IF result THEN "episode" ELSE "mirror"

MirrorReturn(t) ==
    /\ pc[t] = "dv_ret"
    /\ loop' = [loop EXCEPT ![t].attempts = Append(@, <<loop[t].mir, dv[t].result>>)]
    /\ pc' = [pc EXCEPT ![t] = AfterMirror(dv[t].result)]
    /\ UNCHANGED <<status, rdConfig, dv, outFile, cancelPhase, resets, lastCall, vin, vout, pin, pout, auxVars>>

(***************************************************************************)
(* StreamScraper._download_video (src/scraper.py:601-725).  The calls that *)
(* block on the network or on a subprocess (the unrestrict request, the    *)
(* extraction tool, the fallback downloader, the verifier) are steps of    *)
(* their own; their outcomes are chosen by the environment.                *)
(***************************************************************************)
\* Line 646: the task goes through the unrestrict service.
UsesDebridAfterFailure(d) ==
    /\ rdConfig # "none"
    /\ (HasDebridPrefix(d.url) \/ rdConfig = "premium")

UsesDebrid(d) ==
    /\ rdConfig # "none"
    /\ ~d.rd_failed
    /\ (HasDebridPrefix(d.url) \/ rdConfig = "premium")

\* Lines 628-646: the loop condition, the cancel poll, the choice of path.
\* A worker that polls after a cancel request has been made is marked.
DvLoopHead(t) ==
    /\ pc[t] = "dv_head"
    /\ cancelPhase' = [cancelPhase EXCEPT
           ![t] = IF @ = "requested" THEN "polled" ELSE @]
    /\ IF dv[t].retries >= MaxRetries
       THEN DvReturn(t, FALSE)
       ELSE IF StatusIsCancelRequested(status)
       THEN /\ dv' = [dv EXCEPT ![t].iters = @ + 1, ![t].result = FALSE]
            /\ pc' = [pc EXCEPT ![t] = ReturnPc(t)]
       ELSE /\ dv' = [dv EXCEPT ![t].iters = @ + 1]
            /\ pc' = [pc EXCEPT ![t] = IF UsesDebrid(dv[t]) THEN "dv_rd" ELSE "dv_ytdl"]
    /\ UNCHANGED <<status, rdConfig, loop, outFile, resets, lastCall, vin, vout, pin, pout, auxVars>>

\* Lines 652-656: the unrestrict service gave no link.
OnUnrestrictFailureForgets(d) == [d EXCEPT !.retries = 0]
OnUnrestrictFailure(d) == [d EXCEPT !.rd_failed = TRUE, !.retries = 0]

\* Lines 648-669: RealDebrid.unrestrict_link returns a link, which replaces
\* task.url, or None; then a voe.sx task tries the fallback at once and any
\* other goes round the loop again.
DvUnrestrict(t) ==
    /\ pc[t] = "dv_rd"
    /\ \E ok \in BOOLEAN :
           IF ok
           THEN /\ dv' = [dv EXCEPT ![t].url = "direct"]
                /\ pc' = [pc EXCEPT ![t] = "dv_ytdl"]
           ELSE /\ dv' = [dv EXCEPT ![t] = OnUnrestrictFailure(@)]
                /\ pc' = [pc EXCEPT ![t] =
                       IF dv[t].is_voe /\ dv[t].original_url # None
                       THEN "dv_fb_rd" ELSE "dv_head"]
    /\ UNCHANGED <<status, rdConfig, loop, outFile, cancelPhase, resets, lastCall, vin, vout, pin, pout, auxVars>>

\* Lines 661-669 and 490-519: _try_voe_fallback after the unrestrict
\* failure.  It saves to <title>.mp4 beside task.output_path, and what is
\* verified next is task.output_path.
DvFallbackAfterUnrestrict(t) ==
    /\ pc[t] = "dv_fb_rd"
    /\ \E ok \in BOOLEAN :
           IF ok
           THEN /\ dv' = [dv EXCEPT ![t].fb = @ + 1, ![t].xfer = "fallback"]
                /\ pc' = [pc EXCEPT ![t] = "dv_verify"]
           ELSE /\ dv' = [dv EXCEPT ![t].fb = @ + 1]
                /\ pc' = [pc EXCEPT ![t] = "dv_head"]
    /\ UNCHANGED <<status, rdConfig, loop, outFile, cancelPhase, resets, lastCall, vin, vout, pin, pout, auxVars>>

\* Lines 703-707: the except clause counts the failed pass.
\* Where a failed pass goes: round the loop, or at max_retries to the
\* fallback (voe.sx tasks) or out with False.
AfterFailure(d) ==
    IF d.retries + 1 >= MaxRetries
    THEN IF d.is_voe THEN "dv_fb_max" ELSE "return"
    ELSE "dv_head"

\* What the extraction tool raises, by the text the handler looks for
\* (lines 695 and 698).
ErrorMessages == {"Video unavailable", "other error"}

\* Line 698: "Video unavailable" in error_msg.
IsUnavailableNever(msg) == FALSE
IsUnavailable(msg) == msg = "Video unavailable"

\* Lines 693-707: nothing in the except clauses touches task.output_path,
\* so what the extraction tool had written there when it raised stays.
FileAfterError(file, written) == IF written THEN "partial" ELSE file

\* Lines 671-707: the extraction tool downloads to task.output_path (a file
\* the verifier will accept, "good", or will not, "bad"), reports the video
\* unavailable (return False at once), or fails otherwise, with or without
\* having written to task.output_path.
DvExtract(t) ==
    /\ pc[t] = "dv_ytdl"
    /\ \E outcome \in {"good", "bad"} \cup ErrorMessages :
           IF outcome \in {"good", "bad"}
           THEN /\ outFile' = [outFile EXCEPT ![t] = outcome]
                /\ dv' = [dv EXCEPT ![t].ytdl = @ + 1, ![t].xfer = "ytdl"]
                /\ pc' = [pc EXCEPT ![t] = "dv_verify"]
           ELSE IF IsUnavailable(outcome)
           THEN /\ dv' = [dv EXCEPT ![t].ytdl = @ + 1, ![t].err = outcome,
                                    ![t].result = FALSE]
                /\ pc' = [pc EXCEPT ![t] = ReturnPc(t)]
                /\ UNCHANGED outFile
           ELSE /\ dv' = [dv EXCEPT
                       ![t].ytdl = @ + 1,
                       ![t].err = outcome,
                       ![t].retries = @ + 1,
                       ![t].result = IF AfterFailure(dv[t]) = "return" THEN FALSE ELSE @]
                /\ pc' = [pc EXCEPT ![t] =
                       IF AfterFailure(dv[t]) = "return"
                       THEN ReturnPc(t) ELSE AfterFailure(dv[t])]
                /\ \E written \in BOOLEAN :
                       outFile' = [outFile EXCEPT ![t] = FileAfterError(@, written)]
    /\ UNCHANGED <<status, rdConfig, loop, cancelPhase, resets, lastCall, vin, vout, pin, pout, auxVars>>

\* Lines 709-723: the fallback once max_retries is reached.
DvFallbackAtMax(t) ==
    /\ pc[t] = "dv_fb_max"
    /\ \E ok \in BOOLEAN :
           IF ok
           THEN /\ dv' = [dv EXCEPT ![t].fb = @ + 1, ![t].xfer = "fallback"]
                /\ pc' = [pc EXCEPT ![t] = "dv_verify"]
           ELSE /\ dv' = [dv EXCEPT ![t].fb = @ + 1, ![t].result = FALSE]
                /\ pc' = [pc EXCEPT ![t] = ReturnPc(t)]
    /\ UNCHANGED <<status, rdConfig, loop, outFile, cancelPhase, resets, lastCall, vin, vout, pin, pout, auxVars>>

\* _verify_german_audio (lines 521-599) on the file at task.output_path:
\* True for a file verify_language accepts; a rejected file is deleted
\* (lines 571-585); of a missing file the probe fails, which rejects.
VerifyGermanAudio(file) == file = "good"
FileAfterVerify(file) == IF file = "good" THEN "good" ELSE "none"

\* What _download_video returns once the verifier has answered (lines
\* 663-667, 686-691, 716-721).
AfterVerifyAlwaysTrue(accepted) == TRUE
AfterVerify(accepted) == accepted

DvVerify(t) ==
    /\ pc[t] = "dv_verify"
    /\ dv' = [dv EXCEPT
           ![t].vfy = IF VerifyGermanAudio(outFile[t]) THEN "accept" ELSE "reject",
           ![t].result = AfterVerify(VerifyGermanAudio(outFile[t]))]
    /\ outFile' = [outFile EXCEPT ![t] = FileAfterVerify(@)]
    /\ pc' = [pc EXCEPT ![t] = ReturnPc(t)]
    /\ UNCHANGED <<status, rdConfig, loop, cancelPhase, resets, lastCall, vin, vout, pin, pout, auxVars>>

(***************************************************************************)
(* StreamScraper.download_direct_voe (src/scraper.py:1475-1535).           *)
(***************************************************************************)
\* Lines 1483-1498: without an unrestrict client the call raises before it
\* touches the status; otherwise it marks the download started, with no
\* look at is_downloading.
VoeBegin(t) ==
    /\ pc[t] = "idle"
    /\ IF rdConfig = "none"
       THEN /\ pc' = [pc EXCEPT ![t] = "raised_cfg"]
            /\ UNCHANGED status
       ELSE /\ status' = StatusStartDownload(status)
            /\ pc' = [pc EXCEPT ![t] = "v_begun"]
    /\ UNCHANGED <<rdConfig, loop, dv, outFile, cancelPhase, resets, lastCall, vin, vout, pin, pout, auxVars>>

\* Lines 1499-1505.
VoeAnnounce(t) ==
    /\ pc[t] = "v_begun"
    /\ status' = StatusUpdate(status, "voe.mp4", 0, 1, 1, "Starting download from VOE.sx")
    /\ pc' = [pc EXCEPT ![t] = "v_unrestrict"]
    /\ UNCHANGED <<rdConfig, loop, dv, outFile, cancelPhase, resets, lastCall, vin, vout, pin, pout, auxVars>>

\* Lines 1509-1518: the link is unrestricted (None on failure), made a task
\* and handed to _download_video.
VoeUnrestrict(t) ==
    /\ pc[t] = "v_unrestrict"
    /\ \E url \in {"direct", "null"} : DvCall(t, url)
    /\ outFile' = [outFile EXCEPT ![t] = "none"]
    /\ UNCHANGED <<status, rdConfig, loop, cancelPhase, resets, lastCall, vin, vout, pin, pout, auxVars>>

\* Lines 1520-1524: the result of _download_video is not looked at.
VoeReturn(t) ==
    /\ pc[t] = "v_ret"
    /\ status' = StatusUpdate(status, "", 100, NoValue, NoValue, "Download completed successfully")
    /\ pc' = [pc EXCEPT ![t] = "finally"]
    /\ UNCHANGED <<rdConfig, loop, dv, outFile, cancelPhase, resets, lastCall, vin, vout, pin, pout, auxVars>>

(***************************************************************************)
(* The web layer (src/app.py): /api/cancel and /api/reset.                 *)
(***************************************************************************)
\* api_cancel (app.py:797-822) answers 409 on an idle record, else calls
\* request_cancel.  Every thread inside a batch now owes a cancel poll.
RequestCancel ==
    /\ status.is_downloading
    /\ status' = StatusRequestCancel(status)
    /\ cancelPhase' = [t \in Threads |->
           IF Running(t) /\ cancelPhase[t] = "none" THEN "requested" ELSE cancelPhase[t]]
    /\ UNCHANGED <<rdConfig, pc, loop, dv, outFile, resets, lastCall, vin, vout, pin, pout, auxVars>>

\* reset_session via /api/reset (app.py:785-795), called whatever runs.
WebResetSession ==
    /\ resets < MaxResets
    /\ status' = ResetSession(status)
    /\ resets' = resets + 1
    /\ UNCHANGED <<rdConfig, pc, loop, dv, outFile, cancelPhase, lastCall, vin, vout, pin, pout, auxVars>>

(***************************************************************************)
(* The orchestration specifications.                                       *)
(***************************************************************************)
OrchInit ==
    /\ status = DownloadStatusInit
    /\ rdConfig \in {"none", "free", "premium"}
    /\ pc = [t \in Threads |-> "idle"]
    /\ loop = [t \in Threads |-> LoopInit]
    /\ dv = [t \in Threads |-> DvIdle]
    /\ outFile = [t \in Threads |-> "none"]
    /\ cancelPhase = [t \in Threads |-> "none"]
    /\ resets = 0
    /\ lastCall = [op |-> "none"]
    /\ vin = None
    /\ vout = None
    /\ pin = None
    /\ pout = None
    /\ ul = None
    /\ urlLog = None

\* start_download around process_series.
EntryStep(t, hasSeason) ==
    \/ StartDownloadCheck(t)
    \/ BatchBegin(t)
    \/ BatchAnnounce(t)
    \/ ProcessSeries(t, hasSeason)
    \/ BatchError(t)
    \/ BatchReset(t)
    \/ BatchEnd(t)

\* The season process_series submitted.
SeasonStep(t) ==
    \/ ProcessSeason(t, MaxEpisodes)
    \/ NextEpisode(t, MaxMirrors)
    \/ NextMirror(t)
    \/ MirrorReturn(t)
    \/ SeasonJoin(t)

DownloadStep(t) ==
    \/ DvLoopHead(t)
    \/ DvUnrestrict(t)
    \/ DvFallbackAfterUnrestrict(t)
    \/ DvExtract(t)
    \/ DvFallbackAtMax(t)
    \/ DvVerify(t)

\* _download_video on an unrestricted link, which is no voe.sx URL: the
\* fallback downloader is out of its reach.
DirectDownloadStep(t) ==
    \/ DvLoopHead(t)
    \/ DvUnrestrict(t)
    \/ DvExtract(t)
    \/ DvVerify(t)

VoeStep(t) ==
    \/ VoeBegin(t)
    \/ VoeAnnounce(t)
    \/ VoeUnrestrict(t)
    \/ VoeReturn(t)
    \/ BatchEnd(t)

WebStep == RequestCancel \/ WebResetSession

Init == OrchInit

\* One batch: a caller of start_download on a series with a season.
Next ==
    \/ EntryStep("c1", TRUE)
    \/ SeasonStep("c1")
    \/ DownloadStep("c1")
    \/ WebStep

Spec == Init /\ [][Next]_vars

\* The entry points racing: two callers of start_download, on series whose
\* page cannot be loaded or lists no season (process_series returns at lines
\* 960-978), and a direct download.
NextEntry ==
    \/ \E t \in Callers : EntryStep(t, FALSE)
    \/ VoeStep("voe")
    \/ DirectDownloadStep("voe")
    \/ WebStep

SpecEntry == Init /\ [][NextEntry]_vars

(***************************************************************************)
(* SpecStatus: one DownloadStatus record, its methods called in any order  *)
(* with any arguments.  lastCall remembers the call that led to the        *)
(* current state.                                                          *)
(***************************************************************************)
Titles == {"", "A"}                 \* "" is update's default for title
Messages == {"", "m"}               \* "" is update's default for status_message
ProgressValues == {NoValue, 0, 50}
EpisodeCounts == {NoValue, 1}

UpdateArgs ==
    [title : Titles, progress : ProgressValues, current_episode : EpisodeCounts,
     total_episodes : EpisodeCounts, status_message : Messages]

CallUpdate ==
    \E a \in UpdateArgs :
        /\ status' = StatusUpdate(status, a.title, a.progress, a.current_episode,
                                  a.total_episodes, a.status_message)
        /\ lastCall' = [op |-> "update", args |-> a]
        /\ UNCHANGED <<orchVars, vin, vout, pin, pout, auxVars>>

CallStartDownload ==
    /\ status' = StatusStartDownload(status)
    /\ lastCall' = [op |-> "start_download"]
    /\ UNCHANGED <<orchVars, vin, vout, pin, pout, auxVars>>

CallFinishDownload ==
    /\ status' = StatusFinishDownload(status)
    /\ lastCall' = [op |-> "finish_download"]
    /\ UNCHANGED <<orchVars, vin, vout, pin, pout, auxVars>>

\* request_cancel returns whether the record was downloading (lines 126-133).
CallRequestCancel ==
    /\ status' = StatusRequestCancel(status)
    /\ lastCall' = [op |-> "request_cancel", ret |-> status.is_downloading]
    /\ UNCHANGED <<orchVars, vin, vout, pin, pout, auxVars>>

CallGetStatus ==
    /\ lastCall' = [op |-> "get_status", ret |-> StatusGetStatus(status)]
    /\ UNCHANGED <<status, orchVars, vin, vout, pin, pout, auxVars>>

IdleOrch ==
    /\ rdConfig = "none"
    /\ pc = [t \in Threads |-> "idle"]
    /\ loop = [t \in Threads |-> LoopInit]
    /\ dv = [t \in Threads |-> DvIdle]
    /\ outFile = [t \in Threads |-> "none"]
    /\ cancelPhase = [t \in Threads |-> "none"]
    /\ resets = 0

InitStatus ==
    /\ status = DownloadStatusInit
    /\ lastCall = [op |-> "none"]
    /\ vin = None
    /\ vout = None
    /\ pin = None
    /\ pout = None
    /\ ul = None
    /\ urlLog = None
    /\ IdleOrch

NextStatus ==
    \/ CallUpdate
    \/ CallStartDownload
    \/ CallFinishDownload
    \/ CallRequestCancel
    \/ CallGetStatus

SpecStatus == InitStatus /\ [][NextStatus]_vars

(***************************************************************************)
(* language_guard.verify_language (src/language_guard.py:201-266) and the  *)
(* helpers it calls.  The probe data is the list of the file's audio and   *)
(* subtitle streams behind its video stream (stream 0); what the probe,    *)
(* the remux tool and the speech model answer is part of the input.        *)
(***************************************************************************)
MaxStreams == 2     \* audio and subtitle streams of the probed file

DesiredLangTags == {"de", "deu", "ger"}     \* language.prefer, line 13
WhisperAccept == {"de"}                     \* language.whisper_accept_639_1, line 14

\* Language tags as the container carries them, and str.lower on them.
RawTags == {"", "de", "GER", "en"}
Lower(tag) ==
    CASE tag = "GER" -> "ger"
      [] tag = "DE" -> "de"
      [] tag = "720P" -> "720p"
      [] OTHER -> tag

Streams == [codec_type : {"audio", "subtitle"}, language : RawTags]
Metas == UNION {[1..n -> Streams] : n \in 0..MaxStreams}

\* Languages the speech model detects on a file; "" when it detects nothing
\* or every sample fails.
Detected == {"", "de", "en"}

\* reject_subs_only: every call in the repository leaves it at its default
\* or passes True (scraper.py:543, language_guard.py:280 and 325).
RejectSubsOnlyValues == {TRUE}

VerifyInputs ==
    [probe_ok : BOOLEAN, meta : Metas, require_dub : BOOLEAN, remux : BOOLEAN,
     reject_subs_only : RejectSubsOnlyValues, whisper : BOOLEAN,
     ffmpeg_ok : BOOLEAN, detected : Detected, detected_remuxed : Detected]

\* audio_lang_indices (lines 81-88): the indices of the matching audio
\* streams, in stream order.
RECURSIVE AudioLangIndicesFrom(_, _)
AudioLangIndicesFrom(meta, i) ==
    IF i > Len(meta) THEN <<>>
    ELSE IF meta[i].codec_type = "audio" /\ Lower(meta[i].language) \in DesiredLangTags
         THEN <<i>> \o AudioLangIndicesFrom(meta, i + 1)
         ELSE AudioLangIndicesFrom(meta, i + 1)

AudioLangIndices(meta) == AudioLangIndicesFrom(meta, 1)

\* has_subtitles_in_lang (lines 90-96).
HasSubtitlesNever(meta) == FALSE
HasSubtitlesInLang(meta) ==
    \E i \in 1..Len(meta) :
        /\ meta[i].codec_type = "subtitle"
        /\ Lower(meta[i].language) \in DesiredLangTags

\* content_language_guess (lines 129-154): "" with the speech model switched
\* off, else the first non-empty detection.
ContentLanguageGuess(whisper, detected) ==
    IF ~whisper THEN "" ELSE detected

\* remux_to_de (lines 156-195): Path(video).with_suffix('.de.mkv'), holding
\* the video stream and the first matching audio stream; None without a
\* matching stream or when the tool fails.
RemuxPath == "video.de.mkv"
RemuxToDeAnyTrack(meta, ffmpeg_ok) ==
    IF ffmpeg_ok THEN [path |-> RemuxPath, mapped |-> 1, ran |-> 1]
    ELSE [path |-> None, mapped |-> NoValue, ran |-> 1]
RemuxToDeNever(meta, ffmpeg_ok) == [path |-> None, mapped |-> NoValue, ran |-> 0]
RemuxToDe(meta, ffmpeg_ok) ==
    LET idxs == AudioLangIndices(meta) IN
    IF idxs = <<>> THEN [path |-> None, mapped |-> NoValue, ran |-> 0]
    ELSE IF ffmpeg_ok THEN [path |-> RemuxPath, mapped |-> idxs[1], ran |-> 1]
    ELSE [path |-> None, mapped |-> NoValue, ran |-> 1]

\* What verify_language returns (ok, detail, fixed path), with the detail's
\* formatted-in part apart, and what it had the tools do on the way.
VerifyResult(ok, detail, detail_arg, fixed, content_checks, remux_runs, mapped) ==
    [called |-> TRUE, ok |-> ok, detail |-> detail, detail_arg |-> detail_arg,
     fixed |-> fixed, content_checks |-> content_checks,
     remux_runs |-> remux_runs, mapped |-> mapped]

NotVerified ==
    [called |-> FALSE, ok |-> FALSE, detail |-> "", detail_arg |-> "",
     fixed |-> None, content_checks |-> 0, remux_runs |-> 0, mapped |-> NoValue]

\* Lines 229-232: ffprobe_streams raises (the tool exits non-zero, cannot be
\* started, or prints no JSON) and the exception is caught.
ProbeNeverFails(in) == FALSE
ProbeFailed(in) == ~in.probe_ok

VerifyLanguage(in) ==
    LET meta == in.meta
        audio_idxs == AudioLangIndices(meta)
        out == RemuxToDe(meta, in.ffmpeg_ok)
        lang == ContentLanguageGuess(in.whisper, in.detected)
        lang2 == ContentLanguageGuess(in.whisper, in.detected_remuxed)
        mismatch_detail ==
            IF in.whisper THEN (IF lang # "" THEN lang ELSE "unknown")
            ELSE "whisper-disabled"
    IN
    IF ProbeFailed(in)
    THEN VerifyResult(FALSE, "ffprobe-error", "ffprobe failed", None, 0, 0, NoValue)
    ELSE IF audio_idxs # <<>>
    THEN IF in.remux /\ out.path # None
         THEN VerifyResult(TRUE, "tag-match-remuxed", "", out.path, 0, out.ran, out.mapped)
         ELSE VerifyResult(TRUE, "tag-match", "", None, 0,
                           IF in.remux THEN out.ran ELSE 0, NoValue)
    ELSE IF in.reject_subs_only /\ HasSubtitlesInLang(meta)
    THEN VerifyResult(FALSE, "subs-only", "", None, 0, 0, NoValue)
    ELSE IF in.require_dub
    THEN VerifyResult(FALSE, "dub-required", "", None, 0, 0, NoValue)
    ELSE IF in.whisper /\ lang # "" /\ lang \in WhisperAccept
    THEN VerifyResult(TRUE, "content-match", lang, None, 1, 0, NoValue)
    ELSE IF in.whisper /\ in.remux /\ out.path # None
    THEN IF lang2 # "" /\ lang2 \in WhisperAccept
         THEN VerifyResult(TRUE, "accepted-after-remux", "", out.path, 2, out.ran, out.mapped)
         ELSE VerifyResult(FALSE, "mismatch", mismatch_detail, None, 2, out.ran, NoValue)
    ELSE VerifyResult(FALSE, "mismatch", mismatch_detail, None,
                      IF in.whisper THEN 1 ELSE 0,
                      IF in.whisper /\ in.remux THEN out.ran ELSE 0, NoValue)

CallVerifyLanguage ==
    /\ ~vout.called
    /\ vout' = VerifyLanguage(vin)
    /\ UNCHANGED <<status, orchVars, lastCall, vin, pin, pout, auxVars>>

InitVerify ==
    /\ vin \in VerifyInputs
    /\ vout = NotVerified
    /\ pin = None
    /\ pout = None
    /\ ul = None
    /\ urlLog = None
    /\ status = DownloadStatusInit
    /\ lastCall = [op |-> "none"]
    /\ IdleOrch

NextVerify == CallVerifyLanguage

SpecVerify == InitVerify /\ [][NextVerify]_vars

(***************************************************************************)
(* The variant selector of language_guard.py (lines 619-680).  A variant   *)
(* is an EpisodeVariant (models.py) cut down to the fields the selector    *)
(* reads; its url is its position in the list it came in.  An optional     *)
(* variant is a sequence of at most one variant: <<>> is Python's None.    *)
(***************************************************************************)
MaxVariants == 2      \* variants handed to the selector
MaxPriorities == 2    \* entries of the configured language priority

\* The rank offset of an audio-only match and the rank of no match at all
\* (sort_by_preference), and the rank of a quality off the ladder.
AudioOnlyOffset == 100
NoRank == 999
NoQuality == 999

AudioLangs == {"de", "ja"}
DubLangs == {None, "de"}
Qualities == {"1080p", "720P", ""}

\* An entry (a_pref, d_pref) of the priority list.  _get_lang_priority
\* (lines 37-60) falls back to DEFAULT_LANG_PRIORITY when the configuration
\* yields nothing, so the list is never empty.
Preferences == AudioLangs \X DubLangs
PriorityLists == UNION {[1..n -> Preferences] : n \in 1..MaxPriorities}

VariantTags ==
    [audio_lang : AudioLangs \cup {None}, dub_lang : DubLangs, quality : Qualities]

VariantLists ==
    UNION {{[i \in 1..n |->
                [url |-> i, audio_lang |-> f[i].audio_lang,
                 dub_lang |-> f[i].dub_lang, quality |-> f[i].quality]] :
            f \in [1..n -> VariantTags]} : n \in 0..MaxVariants}

\* The first (i, j) in the order of a loop over i with a loop over j inside.
FirstInLoopOrder(S) ==
    CHOOSE p \in S : \A q \in S : p[1] < q[1] \/ (p[1] = q[1] /\ p[2] <= q[2])

\* pick_best (lines 619-641).
PickBestFirst(vs, prio) == IF vs = <<>> THEN <<>> ELSE <<vs[1]>>
PickBest(vs, prio) ==
    IF prio = <<>> \/ vs = <<>>
    THEN (IF vs = <<>> THEN <<>> ELSE <<vs[1]>>)
    ELSE LET exact == {p \in (1..Len(prio)) \X (1..Len(vs)) :
                          /\ vs[p[2]].audio_lang = prio[p[1]][1]
                          /\ vs[p[2]].dub_lang = prio[p[1]][2]}
             audio_only == {p \in (1..Len(prio)) \X (1..Len(vs)) :
                               /\ prio[p[1]][2] = None
                               /\ vs[p[2]].audio_lang = prio[p[1]][1]}
         IN IF exact # {} THEN <<vs[FirstInLoopOrder(exact)[2]]>>
            ELSE IF audio_only # {} THEN <<vs[FirstInLoopOrder(audio_only)[2]]>>
            ELSE <<vs[1]>>

\* rank, the sort key of sort_by_preference (lines 647-655); Python counts
\* the entries from 0.
Rank(v, prio) ==
    LET exact == {i \in 1..Len(prio) :
                     v.audio_lang = prio[i][1] /\ v.dub_lang = prio[i][2]}
        audio_only == {i \in 1..Len(prio) :
                          prio[i][2] = None /\ v.audio_lang = prio[i][1]}
        Min(S) == CHOOSE i \in S : \A j \in S : i <= j
    IN IF exact # {} THEN Min(exact) - 1
       ELSE IF audio_only # {} THEN Min(audio_only) - 1 + AudioOnlyOffset
       ELSE NoRank

\* sorted(..., key=...): a stable sort, here by insertion, of <<key, item>>
\* pairs; an item goes behind every item whose key is not greater.
RECURSIVE InsertByKey(_, _)
InsertByKey(sorted, kv) ==
    IF sorted = <<>> THEN <<kv>>
    ELSE IF sorted[1][1] <= kv[1]
         THEN <<sorted[1]>> \o InsertByKey(Tail(sorted), kv)
         ELSE <<kv>> \o sorted

RECURSIVE SortedByKey(_)
SortedByKey(kvs) ==
    IF kvs = <<>> THEN <<>>
    ELSE InsertByKey(SortedByKey(SubSeq(kvs, 1, Len(kvs) - 1)), kvs[Len(kvs)])

Items(kvs) == [i \in 1..Len(kvs) |-> kvs[i][2]]

\* sort_by_preference (lines 643-656).
SortUnsorted(vs, prio) == vs
SortByPreference(vs, prio) ==
    Items(SortedByKey([i \in 1..Len(vs) |-> <<Rank(vs[i], prio), vs[i]>>]))

\* qrank (lines 670-676).
QualityOrder == <<"2160p", "1440p", "1080p", "720p", "480p", "360p">>
QRankFlat(q) == NoQuality
QRank(q) ==
    LET hits == {i \in 1..Len(QualityOrder) : QualityOrder[i] = Lower(q)}
    IN IF hits = {} THEN NoQuality ELSE (CHOOSE i \in hits : TRUE) - 1

\* pick_best_with_quality (lines 658-680): the dictionary keeps its keys in
\* the order of their insertion, so its first list is that of the pair of
\* ordered[0].
PickBestWithQuality(vs, prio) ==
    LET ordered == SortByPreference(vs, prio) IN
    IF ordered = <<>> THEN <<>>
    ELSE LET SamePair(v) == /\ v.audio_lang = ordered[1].audio_lang
                            /\ v.dub_lang = ordered[1].dub_lang
             lst == SelectSeq(ordered, SamePair)
         IN <<Items(SortedByKey([i \in 1..Len(lst) |->
                                    <<QRank(lst[i].quality), lst[i]>>]))[1]>>

CallPickBest ==
    /\ pout.op = "none"
    /\ pout' = [op |-> "pick_best", result |-> PickBest(pin.variants, pin.prio)]
    /\ UNCHANGED <<status, orchVars, lastCall, vin, vout, pin, auxVars>>

CallSortByPreference ==
    /\ pout.op = "none"
    /\ pout' = [op |-> "sort_by_preference",
                result |-> SortByPreference(pin.variants, pin.prio)]
    /\ UNCHANGED <<status, orchVars, lastCall, vin, vout, pin, auxVars>>

CallPickBestWithQuality ==
    /\ pout.op = "none"
    /\ pout' = [op |-> "pick_best_with_quality",
                result |-> PickBestWithQuality(pin.variants, pin.prio)]
    /\ UNCHANGED <<status, orchVars, lastCall, vin, vout, pin, auxVars>>

InitSelect ==
    /\ pin \in [prio : PriorityLists, variants : VariantLists]
    /\ pout = [op |-> "none"]
    /\ ul = None
    /\ urlLog = None
    /\ status = DownloadStatusInit
    /\ lastCall = [op |-> "none"]
    /\ vin = None
    /\ vout = None
    /\ IdleOrch

NextSelect ==
    \/ CallPickBest
    \/ CallSortByPreference
    \/ CallPickBestWithQuality

SpecSelect == InitSelect /\ [][NextSelect]_vars

(***************************************************************************)
(* Text.  A text is a string, read as the sequence of its characters; a    *)
(* character is a string of length one.                                    *)
(***************************************************************************)
At(text, i) == SubSeq(text, i, i)

UpperCase == "ABCDEFGHIJKLMNOPQRSTUVWXYZ"
LowerCase == "abcdefghijklmnopqrstuvwxyz"
Digits == "0123456789"

CharsOf(text) == {At(text, i) : i \in 1..Len(text)}

\* str.lower, character by character.
LowerChar(c) ==
    IF c \in CharsOf(UpperCase)
    THEN At(LowerCase, CHOOSE i \in 1..Len(UpperCase) : At(UpperCase, i) = c)
    ELSE c

RECURSIVE LowerText(_)
LowerText(text) ==
    IF text = "" THEN ""
    ELSE LowerChar(At(text, 1)) \o LowerText(SubSeq(text, 2, Len(text)))

\* str.rstrip, str.lstrip and str.strip for the blank.
RECURSIVE RStrip(_)
RStrip(text) ==
    IF text # "" /\ At(text, Len(text)) = " "
    THEN RStrip(SubSeq(text, 1, Len(text) - 1))
    ELSE text

RECURSIVE LStrip(_)
LStrip(text) ==
    IF text # "" /\ At(text, 1) = " "
    THEN LStrip(SubSeq(text, 2, Len(text)))
    ELSE text

Strip(text) == RStrip(LStrip(text))

\* re.sub(r'[\[\]{}()\'"]', ' ', text): every character of the class becomes
\* a blank.
BracketChars == {"[", "]", "{", "}", "(", ")", "'", "\""}

RECURSIVE BlankBrackets(_)
BlankBrackets(text) ==
    IF text = "" THEN ""
    ELSE (IF At(text, 1) \in BracketChars THEN " " ELSE At(text, 1))
         \o BlankBrackets(SubSeq(text, 2, Len(text)))

\* re.sub(r'\s+', ' ', text): every run of blanks becomes one blank.
RECURSIVE CollapseBlanks(_)
CollapseBlanks(text) ==
    IF text = "" THEN ""
    ELSE IF At(text, 1) = " " /\ Len(text) > 1 /\ At(text, 2) = " "
         THEN CollapseBlanks(SubSeq(text, 2, Len(text)))
         ELSE At(text, 1) \o CollapseBlanks(SubSeq(text, 2, Len(text)))

(***************************************************************************)
(* Regular expressions, as far as the patterns of language_guard.py use    *)
(* them.  A pattern is a sequence of elements: a literal, an alternative   *)
(* of literals "(?:a|b)" (with "" among them for "(?:a)?"), "\s*", ".*"    *)
(* and "\b".  re.search is asked only whether there is a match.            *)
(***************************************************************************)
Lit(s) == <<"lit", s>>
Alt(S) == <<"alt", S>>
Opt(s) == <<"alt", {s, ""}>>
Ws == <<"ws">>
DotStar == <<"any">>
Wb == <<"wb">>

\* \w: a letter, a digit or the underscore.
WordChars == CharsOf(LowerCase) \cup CharsOf(UpperCase) \cup CharsOf(Digits) \cup {"_"}

IsWordAt(text, i) == i >= 1 /\ i <= Len(text) /\ At(text, i) \in WordChars

\* \b between the characters i - 1 and i.
WordBoundary(text, i) == IsWordAt(text, i - 1) # IsWordAt(text, i)

StartsAt(text, i, s) ==
    /\ i + Len(s) - 1 <= Len(text)
    /\ SubSeq(text, i, i + Len(s) - 1) = s

RECURSIVE MatchFrom(_, _, _, _)
MatchFrom(text, i, pat, k) ==
    IF k > Len(pat) THEN TRUE
    ELSE LET e == pat[k] IN
         CASE e[1] = "lit" ->
                  StartsAt(text, i, e[2]) /\ MatchFrom(text, i + Len(e[2]), pat, k + 1)
           [] e[1] = "alt" ->
                  \E o \in e[2] :
                      StartsAt(text, i, o) /\ MatchFrom(text, i + Len(o), pat, k + 1)
           [] e[1] = "ws" ->
                  \E j \in i..(Len(text) + 1) :
                      /\ \A m \in i..(j - 1) : At(text, m) = " "
                      /\ MatchFrom(text, j, pat, k + 1)
           [] e[1] = "any" ->
                  \E j \in i..(Len(text) + 1) : MatchFrom(text, j, pat, k + 1)
           [] e[1] = "wb" ->
                  WordBoundary(text, i) /\ MatchFrom(text, i, pat, k + 1)

\* re.search(pattern, text).
Search(text, pat) == \E i \in 1..(Len(text) + 1) : MatchFrom(text, i, pat, 1)

\* _match_any (lines 422-425).
MatchAny(text, patterns) ==
    LET t == LowerText(text)
    IN  \E pat \in patterns : Search(t, pat)

(***************************************************************************)
(* The pattern tables of language_guard.py.  Shapes that recur:            *)
(*   P(s)        r"s"          Sp(a, b)    r"a\s*b"                        *)
(*   Word(s)     r"\bs\b"      Then(a, b)  r"a.*b"                         *)
(*   WordEnd(s)  r"s\b"                                                    *)
(* A pattern that holds a character outside ASCII (a flag, an umlaut, a    *)
(* word in another script) is left out: it matches no label of the model,  *)
(* none of which holds such a character.                                   *)
(***************************************************************************)
P(s) == <<Lit(s)>>
Word(s) == <<Wb, Lit(s), Wb>>
WordEnd(s) == <<Lit(s), Wb>>
Sp(a, b) == <<Lit(a), Ws, Lit(b)>>
Then(a, b) == <<Lit(a), DotStar, Lit(b)>>

\* The languages in the order of the dictionaries' keys.
LangOrder == <<"de", "en", "ja", "fr", "es", "it", "pt", "ru", "ko", "zh">>

LANG_MAP(lang) ==
    CASE lang = "de" ->
           { Word("de"), Word("ger"), P("german"), P("deutsch"),
             <<Lit("dub"), Opt("bed"), Ws, Lit("de")>>,
             <<Lit("ger"), Opt("man"), Ws, Lit("dub")>>,
             <<Lit("deutsch"), Alt({"e", "er", ""}), Ws, Lit("dub")>>,
             Sp("ger", "dub"), Sp("de", "dub"), WordEnd("deu"),
             Then("flag", "de"), P("deutschland"), P("gerdub"), P("ger-dub"),
             P("de-dub"), <<Wb, Lit("omu"), Wb, DotStar, Lit("de")>>,
             Sp("omu", "de"), Then("original", "untertiteln"), P("omut"),
             P("omu") }
      [] lang = "en" ->
           { Word("en"), <<Lit("engl"), Alt({"ish", "isch"})>>, P("eng"),
             Sp("en", "dub"), Sp("english", "dub"), Sp("eng", "dub"),
             P("english"), P("englisch"), Then("flag", "en"), P("usa"),
             Then("english", "dub"), Then("eng", "dub"), Then("subbed", "en"),
             Then("sub", "en") }
      [] lang = "ja" ->
           { Word("ja"), <<Lit("jap"), Alt({"anese", "anisch"})>>, P("jp"),
             P("jpn"), P("japanese"), P("japanisch"), Then("flag", "jp"),
             P("japan"), P("jap"), P("nihongo"), WordEnd("jpn"),
             Then("japanese", "dub"), Then("jap", "dub"), Then("subbed", "ja"),
             Then("sub", "ja"), Then("omu", "ja"), Sp("omu", "ja") }
      [] lang = "fr" -> { Word("fr"), P("french"), WordEnd("fra"), Then("flag", "fr") }
      [] lang = "es" ->
           { Word("es"), P("spanish"), P("spanisch"), WordEnd("spa"), Then("flag", "es") }
      [] lang = "it" ->
           { Word("it"), P("italian"), P("italienisch"), WordEnd("ita"),
             P("italiano"), Then("flag", "it") }
      [] lang = "pt" ->
           { Word("pt"), P("portuguese"), P("portugiesisch"), WordEnd("por"),
             Then("flag", "pt") }
      [] lang = "ru" ->
           { Word("ru"), P("russian"), P("russisch"), WordEnd("rus"), Then("flag", "ru") }
      [] lang = "ko" ->
           { Word("ko"), P("korean"), P("koreanisch"), WordEnd("kor"), Then("flag", "ko") }
      [] lang = "zh" ->
           { Word("zh"), P("chinese"), P("chinesisch"), WordEnd("chi"), Then("flag", "zh") }

DUB_PATTERNS(lang) ==
    CASE lang = "de" ->
           { Sp("german", "dub"), Sp("ger", "dub"), Sp("de", "dub"),
             <<Lit("deutsch"), Alt({"e", "er", ""}), Ws, Lit("dub")>>,
             P("gerdub"), P("ger-dub"), P("de-dub"), Then("deutsch", "dub"),
             Then("german", "dub"), Then("dubbed", "german"),
             Then("dubbed", "deutsch"), Then("dub", "ger"), Then("dub", "de"),
             <<Lit("flag"), DotStar, Lit("de"), DotStar, Lit("dub")>> }
      [] lang = "en" ->
           { Sp("english", "dub"), Sp("eng", "dub"), Sp("en", "dub"),
             Then("english", "dub"), Then("eng", "dub"), Then("dubbed", "english"),
             Then("dubbed", "eng"), Then("dub", "en"), Then("dub", "english"),
             <<Lit("flag"), DotStar, Lit("en"), DotStar, Lit("dub")>> }
      [] lang = "ja" ->
           { Sp("japanese", "dub"), Sp("jap", "dub"), Sp("ja", "dub"),
             Then("japanese", "dub"), Then("jap", "dub"), Then("dubbed", "japanese"),
             Then("dubbed", "jap"), Then("dub", "ja"), Then("dub", "japanese"),
             <<Lit("flag"), DotStar, Lit("jp"), DotStar, Lit("dub")>> }
      [] lang = "fr" ->
           { Sp("french", "dub"), Sp("fra", "dub"), Sp("fr", "dub"),
             Then("french", "dub"), Then("dub", "french") }
      [] lang = "es" ->
           { Sp("spanish", "dub"), Sp("spa", "dub"), Sp("es", "dub"),
             Then("spanish", "dub"), Then("dub", "spanish") }
      [] lang = "it" ->
           { Sp("italian", "dub"), Sp("ita", "dub"), Sp("it", "dub"),
             Then("italian", "dub"), Then("dub", "italian") }
      [] lang = "pt" ->
           { Sp("portuguese", "dub"), Sp("por", "dub"), Sp("pt", "dub"),
             Then("portuguese", "dub"), Then("dub", "portuguese") }
      [] lang = "ru" ->
           { Sp("russian", "dub"), Sp("rus", "dub"), Sp("ru", "dub"),
             Then("russian", "dub"), Then("dub", "russian") }
      [] lang = "ko" ->
           { Sp("korean", "dub"), Sp("kor", "dub"), Sp("ko", "dub"),
             Then("korean", "dub"), Then("dub", "korean") }
      [] lang = "zh" ->
           { Sp("chinese", "dub"), Sp("chi", "dub"), Sp("zh", "dub"),
             Then("chinese", "dub"), Then("dub", "chinese") }

SPECIAL_PATTERNS(kind) ==
    CASE kind = "omu" ->
           { P("omu"), Then("original", "untertiteln"), Then("original", "subtitles") }
      [] kind = "dubbed" -> { P("dubbed"), P("dub"), P("vertont"), P("synchronisiert") }
      [] kind = "subbed" ->
           { P("subbed"), P("sub"), P("untertitelt"), Then("mit", "untertiteln") }
      [] kind = "original" ->
           { P("original"), P("orig"), P("omu"), Then("ohne", "dub") }

\* "s in text" of Python.
Contains(text, s) == \E i \in 1..(Len(text) + 1) : StartsAt(text, i, s)

\* The cleaned label both guessing functions work on (lines 435-439 and
\* 520-522).
CleanLabel(label) == CollapseBlanks(BlankBrackets(Strip(LowerText(label))))

\* The patterns a dictionary holds for a language.
PatternsOf(table, lang) ==
    IF table = "DUB_PATTERNS" THEN DUB_PATTERNS(lang) ELSE LANG_MAP(lang)

\* The languages, in dictionary order, one of whose patterns matches.
MatchingLangs(text, table) ==
    {i \in 1..Len(LangOrder) : MatchAny(text, PatternsOf(table, LangOrder[i]))}

\* The least of a set of numbers that is not empty.
Least(S) == CHOOSE i \in S : \A j \in S : i <= j

\* The first of the languages at the places hits, if there is one.
FirstOf(hits) == IF hits = {} THEN None ELSE LangOrder[Least(hits)]

\* The loops of lines 450-453 and 457-460: the first language that matches.
FirstLang(text, table) == FirstOf(MatchingLangs(text, table))

\* Lines 465-468: "OmU" beside a German dub makes the audio Japanese.
AudioAfterOmu(label_l, audio_lang, dub_lang) ==
    IF MatchAny(label_l, SPECIAL_PATTERNS("omu")) /\ dub_lang = "de"
    THEN "ja" ELSE audio_lang

\* Lines 489-494: with a dub and no audio language, the audio is guessed
\* from the kind of show the label names.
AudioInferred(label_l, audio_lang, dub_lang) ==
    IF dub_lang # None /\ audio_lang = None
    THEN IF \/ Contains(label_l, "anime")
            \/ Contains(label_l, "japan")
            \/ Contains(label_l, "manga")
         THEN "ja"
         ELSE IF Contains(label_l, "cartoon") \/ Contains(label_l, "animation")
              THEN "en"
              ELSE audio_lang
    ELSE audio_lang

\* Lines 504-509: the regional variants of German.
AudioRegional(label_l, audio_lang) ==
    IF audio_lang = "de"
    THEN IF MatchAny(label_l, {P("austrian"), WordEnd("at")})
         THEN "de-at"
         ELSE IF MatchAny(label_l, {P("schweiz"), P("swiss"), WordEnd("ch")})
              THEN "de-ch"
              ELSE audio_lang
    ELSE audio_lang

\* Lines 441-511 on the cleaned label and what the two loops found.
GuessFrom(label_l, audio_lang, dub_lang) ==
    << AudioRegional(label_l,
           AudioInferred(label_l, AudioAfterOmu(label_l, audio_lang, dub_lang),
                         dub_lang)),
       dub_lang >>

GuessCleaned(label_l) ==
    GuessFrom(label_l, FirstLang(label_l, "LANG_MAP"), FirstLang(label_l, "DUB_PATTERNS"))

\* guess_audio_and_dub (lines 427-511): the pair <<audio_lang, dub_lang>>.
GuessAudioAndDub(label) ==
    IF label = "" THEN <<None, None>> ELSE GuessCleaned(CleanLabel(label))

(***************************************************************************)
(* guess_subtitles (lines 513-553).  Its three capturing patterns have one *)
(* shape, r"<word><letter>?\s*[:\-]?\s*([a-z]{2})"; re.findall returns the *)
(* captures of the matches found from left to right, each search starting  *)
(* where the last match ended.                                             *)
(***************************************************************************)
IsLowerAt(text, i) == i >= 1 /\ i <= Len(text) /\ At(text, i) \in CharsOf(LowerCase)

RECURSIVE SkipBlanks(_, _)
SkipBlanks(text, i) ==
    IF i <= Len(text) /\ At(text, i) = " " THEN SkipBlanks(text, i + 1) ELSE i

\* Where the two captured letters begin when r"\s*[:\-]?\s*([a-z]{2})" is
\* matched from position p, or 0 when it does not match there.
AfterSeparator(text, a) ==
    IF a <= Len(text) /\ At(text, a) \in {":", "-"} THEN a + 1 ELSE a

TwoLettersAt(text, q) ==
    IF IsLowerAt(text, q) /\ IsLowerAt(text, q + 1) THEN q ELSE 0

CaptureFrom(text, p) ==
    TwoLettersAt(text, SkipBlanks(text, AfterSeparator(text, SkipBlanks(text, p))))

\* The same for the whole pattern matched from position i: the optional
\* letter is taken first, and given up when the rest does not match.
CaptureAt(text, i, word, letter) ==
    IF ~StartsAt(text, i, word) THEN 0
    ELSE IF StartsAt(text, i + Len(word), letter)
            /\ CaptureFrom(text, i + Len(word) + 1) # 0
         THEN CaptureFrom(text, i + Len(word) + 1)
         ELSE CaptureFrom(text, i + Len(word))

RECURSIVE FindAll(_, _, _, _)
FindAllNext(text, i, q, word, letter) ==
    IF q # 0
    THEN {SubSeq(text, q, q + 1)} \cup FindAll(text, q + 2, word, letter)
    ELSE FindAll(text, i + 1, word, letter)

FindAll(text, i, word, letter) ==
    IF i > Len(text) THEN {}
    ELSE FindAllNext(text, i, CaptureAt(text, i, word, letter), word, letter)

\* Lines 527-538: a label that says "OmU" or "subbed" gives every language
\* it names, in either case.
NamedSubtitles(label_l) ==
    IF \/ MatchAny(label_l, SPECIAL_PATTERNS("omu"))
       \/ MatchAny(label_l, SPECIAL_PATTERNS("subbed"))
    THEN {LangOrder[i] : i \in MatchingLangs(label_l, "LANG_MAP")}
    ELSE {}

SubtitlesCleaned(label_l) ==
    NamedSubtitles(label_l)
    \cup FindAll(label_l, 1, "sub", "s")
    \cup FindAll(label_l, 1, "untertitel", "n")
    \cup FindAll(label_l, 1, "subtitle", "s")

\* The set the function's list is built from, "set(subtitles)".
GuessSubtitles(label) ==
    IF label = "" THEN {} ELSE SubtitlesCleaned(CleanLabel(label))

(***************************************************************************)
(* tag_variant (lines 555-613).  A variant is the record of the fields the *)
(* function reads or writes: title (with "" for a title that is None or    *)
(* empty), the three labels of "extra" (with "" for a key that is absent), *)
(* audio_lang, dub_lang and subs.  "list(set(...))" lists a set in the     *)
(* order of the process's string hashes; hash is that order, a sequence    *)
(* that holds every subtitle code once.                                    *)
(***************************************************************************)
\* The texts a variant of the model carries: its title, and the label,
\* audio_label and track_name of its "extra".
VariantTitles == {"", "Anime OmU"}
VariantLabels ==
    { "", "German Dub HD", "English Original", "Japanese German Dub",
      "English German Dub", "  English  (Sub: de) " }
AudioLabels == {"", "French"}
TrackNames == {"", "subs: en"}
CandidateTexts == VariantTitles \cup VariantLabels \cup AudioLabels \cup TrackNames

\* guess_audio_and_dub and guess_subtitles as functions on those texts.
AudioAndDubOf == [c \in CandidateTexts |-> GuessAudioAndDub(c)]
SubtitlesOf == [c \in CandidateTexts |-> GuessSubtitles(c)]

ListOfSet(S, hash) == SelectSeq(hash, LAMBDA code : code \in S)

\* The mutant of Fill: a guess replaces the value that was there.
FillOverwriting(old, guess) == IF guess # None THEN guess ELSE old

\* Lines 575-578: "if a and not audio: audio = a", and the same for dub.
Fill(old, guess) == IF guess # None /\ old = None THEN guess ELSE old

\* Lines 572-580: what one candidate adds to what is known so far.
TagStep(acc, g, sub) ==
    [audio |-> Fill(acc.audio, g[1]),
     dub |-> Fill(acc.dub, g[2]),
     subs |-> IF sub # <<>> /\ acc.subs = <<>> THEN sub ELSE acc.subs]

\* Lines 569-580: the loop over the candidates; an empty one is skipped.
RECURSIVE TagCandidates(_, _, _, _)
TagCandidates(candidates, k, acc, hash) ==
    IF k > Len(candidates) THEN acc
    ELSE TagCandidates(candidates, k + 1,
                       IF candidates[k] = "" THEN acc
                       ELSE TagStep(acc, AudioAndDubOf[candidates[k]],
                                    ListOfSet(SubtitlesOf[candidates[k]], hash)),
                       hash)

\* Lines 585-590: a variant that says "OmU" and has no subtitles gets its
\* dub language, or German, as the language of its subtitles.
SubsAfterOmu(candidates_text, acc) ==
    IF MatchAny(LowerText(candidates_text), SPECIAL_PATTERNS("omu")) /\ acc.subs = <<>>
    THEN IF acc.dub # None THEN <<acc.dub>> ELSE <<"de">>
    ELSE acc.subs

\* Lines 610-613.
Tagged(variant, acc, subs) ==
    [variant EXCEPT !.audio_lang = acc.audio, !.dub_lang = acc.dub, !.subs = subs]

TagFrom(variant, candidates, acc) ==
    Tagged(variant, acc,
           SubsAfterOmu(candidates[1] \o " " \o candidates[2] \o " "
                        \o candidates[3] \o " " \o candidates[4], acc))

Candidates(variant) ==
    <<variant.title, variant.label, variant.audio_label, variant.track_name>>

TagVariant(variant, hash) ==
    TagFrom(variant, Candidates(variant),
            TagCandidates(Candidates(variant), 1,
                          [audio |-> variant.audio_lang, dub |-> variant.dub_lang,
                           subs |-> variant.subs], hash))

(***************************************************************************)
(* language_utils.py: the language tags of file names.                     *)
(***************************************************************************)
BaseTokens ==
    { "ger", "de", "deu", "german", "eng", "en", "englis", "english", "ja", "jp",
      "jpn", "jap", "japanese", "fr", "fra", "fre", "french", "es", "spa", "span",
      "spanish", "it", "ita", "ital", "italian", "pt", "por", "port",
      "portuguese", "ru", "rus", "russian" }

\* The keys of _LANGUAGE_CANONICAL_TOKENS and of _SUBTITLE_CANONICAL_TOKENS.
CanonicalKeys(suffix) ==
    IF suffix = "dub" THEN {"de", "en", "ja", "fr", "es", "it", "pt", "ru"}
    ELSE {"de", "en"}

EndsWith(text, s) == Len(text) >= Len(s) /\ StartsAt(text, Len(text) - Len(s) + 1, s)

RECURSIVE RStripColon(_)
RStripColon(text) ==
    IF text # "" /\ At(text, Len(text)) = ":"
    THEN RStripColon(SubSeq(text, 1, Len(text) - 1))
    ELSE text

\* Whether _extract_language_code_from_token (lines 73-89) returns a code
\* for the token, which is all that its caller looks at.
NamesLanguage(tok, suffix) ==
    LET token == LowerText(Strip(tok))
        base == RStripColon(SubSeq(token, 1, Len(token) - Len(suffix)))
    IN  IF StartsAt(token, 1, suffix \o ":")
        THEN Len(token) > Len(suffix) + 1
        ELSE \/ EndsWith(token, suffix)
                /\ (base \in BaseTokens \/ base \in CanonicalKeys(suffix))
             \/ token \in CanonicalKeys(suffix)
             \/ token \in BaseTokens /\ suffix = "dub"

IsLanguageTag(token) == NamesLanguage(token, "dub") \/ NamesLanguage(token, "sub")

\* The places where _SUFFIX_PATTERN, r"\s*\[([^\]]+)\]\s*$", matches: blanks,
\* an opening bracket at b, one or more characters other than "]", the
\* closing bracket at e, blanks, the end.
SuffixMatches(text) ==
    { m \in (1..Len(text)) \X (1..Len(text)) \X (1..Len(text)) :
        /\ m[1] <= m[2] /\ m[2] + 2 <= m[3]
        /\ \A j \in m[1]..(m[2] - 1) : At(text, j) = " "
        /\ At(text, m[2]) = "["
        /\ \A j \in (m[2] + 1)..(m[3] - 1) : At(text, j) # "]"
        /\ At(text, m[3]) = "]"
        /\ \A j \in (m[3] + 1)..Len(text) : At(text, j) = " " }

\* strip_language_tag_suffix (lines 115-126); re.search finds the match that
\* starts first.
RECURSIVE StripLanguageTagSuffix(_)
StripLanguageTagSuffix(name) ==
    LET found == SuffixMatches(name)
    IN  IF found = {} THEN RStrip(name)
        ELSE LET m == CHOOSE x \in found : \A y \in found : x[1] <= y[1]
             IN  IF IsLanguageTag(SubSeq(name, m[2] + 1, m[3] - 1))
                 THEN StripLanguageTagSuffix(RStrip(SubSeq(name, 1, m[1] - 1)))
                 ELSE RStrip(name)

(***************************************************************************)
(* SpecLabel: one of the three text functions is called on an input drawn  *)
(* from the sets below; tag_variant, which writes to the variant it is     *)
(* given, may be called on it again.                                       *)
(***************************************************************************)
MaxCalls == 2

Labels ==
    { "", "Japanese German Dub", "German Dub 1080p", "English Original",
      "Unknown Language", "German Dub HD", "English German Dub", "German Dub",
      "OmU", "[GerDub]", "Anime Ger Dub", "Deutsch", "Japanese OmU",
      "Swiss German", "  English  (Sub: de) ", "French", "Anime [Dub DE]",
      "subs: en", "Cartoon FR Dub", "Italian Dub" }

TaggedLangs == {None, "en", "de"}
SubLists == {<<>>, <<"fr", "de">>}

LabelledVariants ==
    [ title : VariantTitles, label : VariantLabels, audio_label : AudioLabels,
      track_name : TrackNames, audio_lang : TaggedLangs, dub_lang : DubLangs,
      subs : SubLists ]

\* Every subtitle code guess_subtitles finds in a text of the variants, and
\* the orders a process may list them in.
SubCodes == UNION {SubtitlesOf[c] : c \in CandidateTexts}

HashOrders ==
    {h \in [1..Cardinality(SubCodes) -> SubCodes] :
        \A i, j \in DOMAIN h : h[i] = h[j] => i = j}

Names ==
    { "Episode", "Episode [GerDub]", "Episode [Dub:EN]", "Episode [GerDub] [Extra]",
      "Episode [Extra] [GerDub]", "Episode [GerSub] [EngDub] ", "Episode [Extra]",
      "Show [JapDub][Sub:DE]", "[GerDub]", "Episode [German]", "Episode [Dub:]",
      "Episode [de]", "Episode [x [GerDub]", "Episode [ FrDub ]  ",
      "Episode [EngSub", "Episode [1080p] [RuDub] [ItDub]" }

LabelInputs ==
    {[fn |-> "guess_audio_and_dub", label |-> l] : l \in Labels}
    \cup {[fn |-> "tag_variant", variant |-> v, hash |-> h] :
            v \in LabelledVariants, h \in HashOrders}
    \cup {[fn |-> "strip_language_tag_suffix", name |-> n] : n \in Names}

CallGuessAudioAndDub ==
    /\ pin.fn = "guess_audio_and_dub"
    /\ pout.op = "none"
    /\ pout' = [op |-> "guess_audio_and_dub", calls |-> 1,
                result |-> GuessAudioAndDub(pin.label)]
    /\ UNCHANGED <<status, orchVars, lastCall, vin, vout, pin, auxVars>>

\* tag_variant assigns to the fields of the variant it was given and
\* returns that variant; "before" keeps what the variant was at the call.
CallTagVariant ==
    /\ pin.fn = "tag_variant"
    /\ pout.calls < MaxCalls
    /\ pin' = [pin EXCEPT !.variant = TagVariant(pin.variant, pin.hash)]
    /\ pout' = [op |-> "tag_variant", calls |-> pout.calls + 1,
                before |-> pin.variant]
    /\ UNCHANGED <<status, orchVars, lastCall, vin, vout, auxVars>>

CallStripLanguageTagSuffix ==
    /\ pin.fn = "strip_language_tag_suffix"
    /\ pout.op = "none"
    /\ pout' = [op |-> "strip_language_tag_suffix", calls |-> 1,
                result |-> StripLanguageTagSuffix(pin.name)]
    /\ UNCHANGED <<status, orchVars, lastCall, vin, vout, pin, auxVars>>

InitLabel ==
    /\ status = DownloadStatusInit
    /\ lastCall = [op |-> "none"]
    /\ IdleOrch
    /\ vin = None
    /\ vout = None
    /\ pin \in LabelInputs
    /\ pout = [op |-> "none", calls |-> 0]
    /\ ul = None
    /\ urlLog = None

NextLabel ==
    \/ CallGuessAudioAndDub
    \/ CallTagVariant
    \/ CallStripLanguageTagSuffix

SpecLabel == InitLabel /\ [][NextLabel]_vars

(***************************************************************************)
(* RealDebrid.unrestrict_link (src/scraper.py:168-227) called with the     *)
(* default max_retries.  posts and heads count the requests sent, sleeps   *)
(* the backoff waits, responses lists what the service answered.           *)
(***************************************************************************)
UnrestrictMaxRetries == 3

\* What a POST to /unrestrict/link comes back with: status 503; status 200
\* with or without a "download" entry; another status whose body names the
\* error unavailable_file, or another error or is no JSON; or the request
\* raises.
Responses ==
    {"503", "200 link", "200 no link", "unavailable_file", "other error", "exception"}

\* What the HEAD request on the download URL comes back with (lines 195-198).
HeadResponses == {"200", "404", "exception"}

\* Lines 168-170.
UlInit ==
    [pc |-> "loop", retries |-> 0, posts |-> 0, heads |-> 0, sleeps |-> 0,
     responses |-> <<>>, result |-> "pending"]

\* Line 209: the error that ends the call.
IsPermanentNever(resp) == FALSE
IsPermanent(resp) == resp = "unavailable_file"

\* Lines 171-177 and 227: the loop condition and the backoff sleep.
UlLoopHead ==
    /\ ul.pc = "loop"
    /\ IF ul.retries < UnrestrictMaxRetries
       THEN ul' = [ul EXCEPT !.pc = "post",
                             !.sleeps = IF ul.retries > 0 THEN @ + 1 ELSE @]
       ELSE ul' = [ul EXCEPT !.pc = "done", !.result = None]
    /\ UNCHANGED <<status, orchVars, lastCall, vin, vout, pin, pout, urlLog>>

\* Lines 179-225: the POST and what its answer leads to.
UlPost ==
    /\ ul.pc = "post"
    /\ \E resp \in Responses :
           LET sent == [ul EXCEPT !.posts = @ + 1, !.responses = Append(@, resp)] IN
           IF resp = "200 link"
           THEN ul' = [sent EXCEPT !.pc = "head"]
           ELSE IF IsPermanent(resp)
           THEN ul' = [sent EXCEPT !.pc = "done", !.result = None]
           ELSE ul' = [sent EXCEPT !.pc = "loop", !.retries = @ + 1]
    /\ UNCHANGED <<status, orchVars, lastCall, vin, vout, pin, pout, urlLog>>

\* Lines 195-198, 216 and 218-221: the HEAD request on the download URL.
UlHead ==
    /\ ul.pc = "head"
    /\ \E resp \in HeadResponses :
           IF resp = "200"
           THEN ul' = [ul EXCEPT !.heads = @ + 1, !.pc = "done", !.result = "direct"]
           ELSE ul' = [ul EXCEPT !.heads = @ + 1, !.pc = "loop", !.retries = @ + 1]
    /\ UNCHANGED <<status, orchVars, lastCall, vin, vout, pin, pout, urlLog>>

InitUnrestrict ==
    /\ status = DownloadStatusInit
    /\ lastCall = [op |-> "none"]
    /\ IdleOrch
    /\ vin = None
    /\ vout = None
    /\ pin = None
    /\ pout = None
    /\ ul = UlInit
    /\ urlLog = None

NextUnrestrict ==
    \/ UlLoopHead
    \/ UlPost
    \/ UlHead

SpecUnrestrict == InitUnrestrict /\ [][NextUnrestrict]_vars

(***************************************************************************)
(* StreamScraper.log_unsupported_url (src/scraper.py:367-372), called from *)
(* _download_video (line 696), which the workers of the download pools run *)
(* (lines 1422-1426 and 1458-1462) and the batch thread of start_download, *)
(* and from download_direct_voe (line 1529), which a web request runs      *)
(* beside a batch.  The method takes no lock: a caller can be preempted    *)
(* between its statements.                                                 *)
(***************************************************************************)
MaxLogCalls == 3

Workers == {"w1", "w2"}
LogUrls == {"u1", "u2"}

\* Lines 280-288: _logged_urls starts as the set of the lines of the file.
RECURSIVE LinesOf(_)
LinesOf(file) == IF file = <<>> THEN {} ELSE {Head(file)} \cup LinesOf(Tail(file))

UrlLogInit(file) ==
    [logged |-> LinesOf(file), file |-> file,
     pc |-> [w \in Workers |-> "idle"], url |-> [w \in Workers |-> None], calls |-> 0]

\* Line 369: the call, and its test of url against _logged_urls.
LogCheck(w) ==
    /\ urlLog.pc[w] = "idle"
    /\ urlLog.calls < MaxLogCalls
    /\ \E url \in LogUrls :
           urlLog' = [urlLog EXCEPT
               !.calls = @ + 1,
               !.url[w] = url,
               !.pc[w] = IF url \notin urlLog.logged THEN "checked" ELSE "idle"]
    /\ UNCHANGED <<status, orchVars, lastCall, vin, vout, pin, pout, ul>>

\* Line 370: _logged_urls.add(url).
LogAdd(w) ==
    /\ urlLog.pc[w] = "checked"
    /\ urlLog' = [urlLog EXCEPT !.logged = @ \cup {urlLog.url[w]}, !.pc[w] = "added"]
    /\ UNCHANGED <<status, orchVars, lastCall, vin, vout, pin, pout, ul>>

\* Lines 371-372: the line is appended to the file.
LogWrite(w) ==
    /\ urlLog.pc[w] = "added"
    /\ urlLog' = [urlLog EXCEPT !.file = Append(@, urlLog.url[w]), !.pc[w] = "idle"]
    /\ UNCHANGED <<status, orchVars, lastCall, vin, vout, pin, pout, ul>>

InitLog ==
    /\ status = DownloadStatusInit
    /\ lastCall = [op |-> "none"]
    /\ IdleOrch
    /\ vin = None
    /\ vout = None
    /\ pin = None
    /\ pout = None
    /\ ul = None
    /\ \E file \in {<<>>, <<"u2">>} : urlLog = UrlLogInit(file)

NextLog ==
    \E w \in Workers :
        \/ LogCheck(w)
        \/ LogAdd(w)
        \/ LogWrite(w)

SpecLog == InitLog /\ [][NextLog]_vars

(***************************************************************************)
(* Claims about the orchestration.                                         *)
(***************************************************************************)
\* Inside process_series of its start_download call.
SeriesPcs ==
    {"begun", "series", "season", "episode", "mirror", "dv_head", "dv_rd",
     "dv_fb_rd", "dv_ytdl", "dv_fb_max", "dv_verify", "dv_ret", "join"}

InSeries(t) == pc[t] \in SeriesPcs

\* C1: at most one batch started by start_download runs at a time: a call
\* made while a batch is active raises instead of starting a second one.
OneBatchAtATime ==
    Cardinality({t \in Callers : Running(t)}) <= 1

\* C2: once a cancel has been requested during a batch and a worker has made
\* its next cancel poll, that worker starts no transfer (no unrestrict
\* request, no extraction-tool download, no fallback download), and the
\* batch ends with is_downloading = false.
CancelStopsTransfers ==
    [][\A t \in Threads :
           /\ cancelPhase[t] = "polled" =>
                  ~(pc[t] \in TransferPcs /\ pc'[t] # pc[t])
           /\ (pc[t] \in FinallyPcs /\ pc'[t] \in EndPcs) => ~status'.is_downloading]_vars

\* C3: every execution of start_download that began a batch ends, on the
\* normal and on either exceptional path, with the status record showing
\* is_downloading = false and cancel_requested = false.
BatchEndsIdle ==
    [][\A t \in Callers :
           (Running(t) /\ pc'[t] \in EndPcs) =>
               /\ pc[t] \in FinallyPcs
               /\ ~status'.is_downloading
               /\ ~status'.cancel_requested]_vars

BatchEndedWitness ==
    /\ pc["c1"] = "raised"
    /\ loop["c1"].ep >= 1
    /\ ~status.is_downloading
    /\ ~status.cancel_requested
    /\ status.progress = 100

\* C4: while a batch started by start_download is inside process_series
\* every snapshot shows is_downloading = true, and no step clears a
\* cancel_requested that is set.
StatusHeldWhileBatchRuns ==
    [][\A t \in Callers :
           InSeries(t)' =>
               /\ StatusGetStatus(status').is_downloading
               /\ (InSeries(t) /\ status.cancel_requested)
                      => status'.cancel_requested]_vars

AllFailed(a) == \A i \in 1..Len(a) : ~a[i][2]
RecordedFailed(t) == \E i \in 1..Len(loop[t].failed) : loop[t].failed[i] = loop[t].ep

MirrorsInOrder ==
    \A t \in Callers :
        LET a == loop[t].attempts IN
        /\ Len(a) <= loop[t].nMir
        /\ \A i \in 1..Len(a) : a[i][1] = i
        /\ \A i \in 1..(Len(a) - 1) : ~a[i][2]
        /\ (pc[t] \in {"episode", "join"} /\ loop[t].ep >= 1) =>
               /\ (Len(a) = loop[t].nMir \/ a[Len(a)][2])
               /\ RecordedFailed(t) <=> (Len(a) = loop[t].nMir /\ AllFailed(a))
        /\ (pc[t] \in {"mirror", "dv_ret"} \cup {"dv_head", "dv_rd", "dv_fb_rd",
                       "dv_ytdl", "dv_fb_max", "dv_verify"}) => ~RecordedFailed(t)

SecondMirrorWitness ==
    /\ pc["c1"] = "episode"
    /\ loop["c1"].attempts = <<<<1, FALSE>>, <<2, TRUE>>>>
    /\ loop["c1"].failed = <<>>

\* C8: a call of _download_video makes at most 2 * max_retries passes of its
\* loop, whatever the unrestrict service, the extraction tool, the fallback
\* downloader and the verifier answer.
LoopBounded ==
    \A t \in Threads : dv[t].iters <= 2 * MaxRetries

LoopBoundWitness ==
    /\ dv["c1"].iters = 2 * MaxRetries
    /\ dv["c1"].rd_failed

\* C19: when the unrestrict service fails inside _download_video the retries
\* already spent are kept: the retry counter is never reset, so that one
\* call asks the extraction tool for at most max_retries transfers.
RetriesKeptOnDemotion ==
    \A t \in Threads : dv[t].ytdl <= MaxRetries

\* C20: _try_voe_fallback is called only for a task whose original URL is
\* a voe.sx URL, only once the retry loop has used up max_retries, and at
\* most once in a call of _download_video.
FallbackLastResortOnce ==
    \A t \in Threads :
        /\ pc[t] \in {"dv_fb_rd", "dv_fb_max"} =>
               /\ dv[t].is_voe
               /\ dv[t].retries >= MaxRetries
        /\ dv[t].fb <= 1

\* C21: when a mirror of an episode has failed or been rejected and the next
\* mirror of that episode is about to be tried, no file lies at the
\* episode's output path.
NoLeftoverAtNextMirror ==
    \A t \in Threads :
        (pc[t] = "mirror" /\ loop[t].mir >= 1 /\ loop[t].mir < loop[t].nMir)
            => outFile[t] = "none"

\* Inside the while loop of _download_video or one of its calls.
DvPcs == {"dv_head", "dv_rd", "dv_fb_rd", "dv_ytdl", "dv_fb_max", "dv_verify"}

\* The extraction tool raised "Video unavailable": the call is over and has
\* returned False.
UnavailableEndsCall ==
    \A t \in Threads :
        dv[t].err = "Video unavailable" => (pc[t] \notin DvPcs /\ ~dv[t].result)

\* A step of the extraction tool that ends in the except clause of line
\* 703: below max_retries the loop is entered again, at max_retries the call
\* goes to the fallback or returns.
OtherFailureRetried ==
    \A t \in Threads :
        (pc[t] = "dv_ytdl" /\ dv'[t].retries = dv[t].retries + 1) =>
            /\ dv'[t].err = "other error"
            /\ IF dv'[t].retries < MaxRetries
               THEN pc'[t] = "dv_head"
               ELSE pc'[t] \in {"dv_fb_max", ReturnPc(t)}

\* C22: when the extraction tool fails with "Video unavailable"
\* _download_video returns False at once, with no further pass, no fallback
\* and no retry counted; any other failure of the tool is retried until
\* max_retries is reached.
UnavailableIsFinal ==
    /\ []UnavailableEndsCall
    /\ [][OtherFailureRetried]_vars

\* The tool failed once, was asked again and reported the video unavailable.
UnavailableWitness ==
    /\ pc["c1"] = "dv_ret"
    /\ dv["c1"].err = "Video unavailable"
    /\ dv["c1"].retries = 1
    /\ dv["c1"].ytdl = 2
    /\ dv["c1"].fb = 0

\* C24: _download_video asks the unrestrict service only when an unrestrict
\* client is configured that has not failed in this call, and either its
\* account is premium or the task URL is one of the unrestrict-capable
\* hoster.
UnrestrictOnlyAsConfigured ==
    \A t \in Threads :
        pc[t] = "dv_rd" =>
            /\ rdConfig # "none"
            /\ ~dv[t].rd_failed
            /\ (rdConfig = "premium" \/ HasDebridPrefix(dv[t].url))

\* A voe.sx task goes to the unrestrict service of a non-premium account.
UnrestrictFreeWitness ==
    /\ pc["c1"] = "dv_rd"
    /\ rdConfig = "free"
    /\ dv["c1"].url = "voe"

\* C24 as stated: the unrestrict service is asked only with a premium
\* account.
UnrestrictOnlyWithPremium ==
    \A t \in Threads : pc[t] = "dv_rd" => rdConfig = "premium"

\* C30: within one call of _download_video the unrestrict service is asked
\* to resolve the task's hoster URL only, never the direct URL an earlier
\* pass of the loop got from it.
UnrestrictOnlyHosterUrl ==
    \A t \in Callers : pc[t] = "dv_rd" => dv[t].url # "direct"

\* The failed list names no episode twice and only episodes begun; a
\* season that has reached its end has been through all of its episodes.
FailuresNamedOnce ==
    \A t \in Callers :
        LET f == loop[t].failed IN
        /\ \A i, j \in 1..Len(f) : f[i] = f[j] => i = j
        /\ \A i \in 1..Len(f) : f[i] \in 1..loop[t].ep
        /\ (pc[t] = "episode" /\ loop[t].ep >= 1 /\ loop[t].nMir >= 1
               /\ Len(loop[t].attempts) = loop[t].nMir /\ AllFailed(loop[t].attempts))
              => \E i \in 1..Len(f) : f[i] = loop[t].ep
        /\ pc[t] = "join" => loop[t].ep = loop[t].nEp

\* The step that finds the mirrors of an episode used up: it goes on to the
\* next episode and leaves the status record, the cancel flag with it, as
\* it is.
ExhaustionContinues ==
    \A t \in Callers :
        (pc[t] = "mirror" /\ pc'[t] # "mirror" /\ loop[t].mir = loop[t].nMir) =>
            /\ pc'[t] = "episode"
            /\ status' = status
            /\ loop'[t].ep = loop[t].ep
            /\ loop'[t].nEp = loop[t].nEp

\* C27: when all mirrors of an episode are exhausted the episode is recorded
\* as failed exactly once and the season goes on with its remaining
\* episodes; the exhaustion neither ends the batch nor sets the cancel flag.
ExhaustedEpisodeReportedOnce ==
    /\ []FailuresNamedOnce
    /\ [][ExhaustionContinues]_vars

\* Both mirrors of the first of two episodes have failed, with no cancel
\* requested: the episode is recorded and the second episode is next.
ExhaustedWitness ==
    /\ pc["c1"] = "episode"
    /\ loop["c1"].ep = 1
    /\ loop["c1"].nEp = 2
    /\ loop["c1"].attempts = <<<<1, FALSE>>, <<2, FALSE>>>>
    /\ loop["c1"].failed = <<1>>
    /\ ~status.cancel_requested

(***************************************************************************)
(* Claims about RealDebrid.unrestrict_link (SpecUnrestrict).               *)
(***************************************************************************)
LastResponse == ul.responses[Len(ul.responses)]

\* C23: unrestrict_link sends at most max_retries unrestrict requests; it
\* returns None on the answer unavailable_file, after which no request is
\* sent, and otherwise returns None only once max_retries requests have
\* failed.
UnrestrictRetriesBounded ==
    /\ ul.posts <= UnrestrictMaxRetries
    /\ \A i \in 1..Len(ul.responses) :
           ul.responses[i] = "unavailable_file" =>
               /\ i = Len(ul.responses)
               /\ ul.pc = "done"
               /\ ul.result = None
    /\ (ul.pc = "done" /\ ul.result = None) =>
           \/ LastResponse = "unavailable_file"
           \/ ul.posts = UnrestrictMaxRetries /\ ul.retries = UnrestrictMaxRetries

\* Three temporary failures in a row: the call gave up with None.
UnrestrictGaveUpWitness ==
    /\ ul.pc = "done"
    /\ ul.result = None
    /\ ul.responses = <<"503", "exception", "200 no link">>
    /\ ul.sleeps = 2

(***************************************************************************)
(* Claims about log_unsupported_url (SpecLog).                             *)
(***************************************************************************)
\* C28: the unsupported-URL file holds each URL at most once, also when
\* several download workers call log_unsupported_url with the same URL at
\* the same time.
NoDuplicateLines ==
    \A i, j \in 1..Len(urlLog.file) :
        urlLog.file[i] = urlLog.file[j] => i = j

(***************************************************************************)
(* Claims about DownloadStatus.                                            *)
(***************************************************************************)
\* C5: DownloadStatus.update changes only the fields a value was supplied
\* for; every field not supplied, and always is_downloading and
\* cancel_requested, keeps its previous value.
UpdateFrame ==
    [][lastCall'.op = "update" =>
           LET a == lastCall'.args IN
           /\ status'.is_downloading = status.is_downloading
           /\ status'.cancel_requested = status.cancel_requested
           /\ a.title = "" => status'.current_title = status.current_title
           /\ a.status_message = "" => status'.status_message = status.status_message
           /\ a.progress = NoValue => status'.progress = status.progress
           /\ a.current_episode = NoValue =>
                  status'.current_episode = status.current_episode
           /\ a.total_episodes = NoValue =>
                  status'.total_episodes = status.total_episodes]_vars

PartialUpdateWitness ==
    /\ lastCall.op = "update"
    /\ lastCall.args.title = ""
    /\ lastCall.args.status_message = ""
    /\ lastCall.args.progress = 50
    /\ lastCall.args.total_episodes = NoValue
    /\ status.current_title = "A"
    /\ status.status_message = "Abbruch angefordert..."
    /\ status.progress = 50
    /\ status.total_episodes = 1
    /\ status.is_downloading
    /\ status.cancel_requested

\* The record, and every snapshot get_status returns, has cancel_requested
\* only together with is_downloading.
CancelOnlyWhileDownloading ==
    /\ status.cancel_requested => status.is_downloading
    /\ lastCall.op = "get_status" =>
           (lastCall.ret.cancel_requested => lastCall.ret.is_downloading)

\* request_cancel on a record that is not downloading returns False and
\* leaves every field as it is.
IdleCancelRefused ==
    (lastCall'.op = "request_cancel" /\ ~status.is_downloading) =>
        /\ lastCall'.ret = FALSE
        /\ status' = status

\* C29: under any interleaving of start_download, finish_download,
\* request_cancel, update and get_status a DownloadStatus record has
\* cancel_requested only while is_downloading, and so has every snapshot;
\* request_cancel on an idle record returns False and changes no field.
CancelImpliesDownloading ==
    /\ []CancelOnlyWhileDownloading
    /\ [][IdleCancelRefused]_vars

\* A download was cancelled and finished; a later request_cancel was refused
\* and left the record of the finished download as it was.
IdleCancelWitness ==
    /\ lastCall.op = "request_cancel"
    /\ lastCall.ret = FALSE
    /\ ~status.is_downloading
    /\ ~status.cancel_requested
    /\ status.progress = 100
    /\ status.status_message = "Download abgeschlossen"

(***************************************************************************)
(* Claims about verify_language.                                           *)
(***************************************************************************)
\* The probed file has a stream of the kind whose tag is a desired one.
FileHasTagged(kind) ==
    \E i \in 1..Len(vin.meta) :
        /\ vin.meta[i].codec_type = kind
        /\ Lower(vin.meta[i].language) \in {"de", "deu", "ger"}

FirstTaggedAudio ==
    CHOOSE i \in 1..Len(vin.meta) :
        /\ vin.meta[i].codec_type = "audio"
        /\ Lower(vin.meta[i].language) \in {"de", "deu", "ger"}
        /\ \A j \in 1..(i - 1) :
               ~(vin.meta[j].codec_type = "audio"
                 /\ Lower(vin.meta[j].language) \in {"de", "deu", "ger"})

\* C9, as the code has it: a file with an audio track tagged with a desired
\* language is accepted without a content check; when remux is enabled and
\* the remux tool succeeds the reason is 'tag-match-remuxed' and the repaired
\* path is the copy holding the first such track; when remux is disabled or
\* the tool fails the reason is 'tag-match' and there is no repaired path.
TagMatchAccepted ==
    (vout.called /\ vin.probe_ok /\ FileHasTagged("audio")) =>
        /\ vout.ok
        /\ vout.content_checks = 0
        /\ IF vin.remux /\ vin.ffmpeg_ok
           THEN /\ vout.detail = "tag-match-remuxed"
                /\ vout.fixed = RemuxPath
                /\ vout.mapped = FirstTaggedAudio
           ELSE /\ vout.detail = "tag-match"
                /\ vout.fixed = None

RemuxedWitness ==
    /\ vout.called
    /\ vin.probe_ok /\ vin.remux /\ vin.ffmpeg_ok
    /\ Len(vin.meta) = 2
    /\ vin.meta[1].codec_type = "subtitle"
    /\ vin.meta[2] = [codec_type |-> "audio", language |-> "GER"]
    /\ vout.detail = "tag-match-remuxed"
    /\ vout.mapped = 2

\* C9, as stated: such a file is accepted with reason 'tag-match', and with
\* remux enabled the repaired path is the single-audio-track copy.
TagMatchAsStated ==
    (vout.called /\ vin.probe_ok /\ FileHasTagged("audio")) =>
        /\ vout.ok
        /\ vout.detail = "tag-match"
        /\ vin.remux => vout.fixed = RemuxPath

ProbeFailureRejected ==
    (vout.called /\ ~vin.probe_ok) =>
        /\ ~vout.ok
        /\ vout.fixed = None
        /\ vout.detail = "ffprobe-error"
        /\ vout.detail_arg = "ffprobe failed"
        /\ vout.content_checks = 0
        /\ vout.remux_runs = 0

ProbeFailureWitness ==
    /\ vout.called
    /\ ~vin.probe_ok
    /\ vin.remux /\ vin.ffmpeg_ok /\ vin.whisper /\ vin.detected = "de"
    /\ vin.meta = <<[codec_type |-> "audio", language |-> "de"]>>
    /\ ~vout.ok
    /\ vout.detail = "ffprobe-error"

\* C25: when no audio track is tagged with a desired language and it is not
\* the case that require_dub is set and a subtitle track is tagged with one,
\* verify_language runs the content check and accepts exactly when the
\* detected language is an accepted one; a rejection's reason is 'mismatch'
\* with the detected code, or 'unknown'.  (Stated for language.verify_with_whisper
\* left at its default.)
ContentCheckDecides ==
    (/\ vout.called /\ vin.probe_ok /\ vin.whisper /\ ~FileHasTagged("audio")
     /\ ~(vin.require_dub /\ FileHasTagged("subtitle"))) =>
        /\ vout.content_checks >= 1
        /\ vout.ok <=> vin.detected \in WhisperAccept
        /\ ~vout.ok =>
               /\ vout.detail = "mismatch"
               /\ vout.detail_arg = IF vin.detected # "" THEN vin.detected ELSE "unknown"

\* The content check of the file has run and has not matched, and remux is
\* allowed.
ContentRejectedRemuxAllowed ==
    /\ vout.called
    /\ vout.content_checks >= 1
    /\ vin.detected \notin WhisperAccept
    /\ vin.remux

PairOf(v) == <<v.audio_lang, v.dub_lang>>

\* Entry i of the priority list is the pair of some variant.
Present(i) == \E j \in 1..Len(pin.variants) : PairOf(pin.variants[j]) = pin.prio[i]

\* Entry i has no dub and its audio language is that of some variant.
AudioPresent(i) ==
    /\ pin.prio[i][2] = None
    /\ \E j \in 1..Len(pin.variants) : pin.variants[j].audio_lang = pin.prio[i][1]

PickBestNoneWithoutMatch ==
    (/\ pout.op = "pick_best"
     /\ pin.variants # <<>>
     /\ \A i \in 1..Len(pin.prio) : ~Present(i) /\ ~AudioPresent(i)) =>
        pout.result = <<>>

LadderPlace(q) ==
    IF \E i \in 1..Len(QualityOrder) : QualityOrder[i] = Lower(q)
    THEN CHOOSE i \in 1..Len(QualityOrder) : QualityOrder[i] = Lower(q)
    ELSE Len(QualityOrder) + 1

GuessOf(label) == pout.op = "guess_audio_and_dub" /\ pin.label = label

\* C16: guess_audio_and_dub keeps the evidence for the base language and
\* the evidence for a dub apart: "Japanese German Dub" yields ("ja", "de"),
\* "German Dub 1080p" yields (None, "de") and "English Original" yields
\* ("en", None).
GuessKeepsEvidenceApart ==
    /\ GuessOf("Japanese German Dub") => pout.result = <<"ja", "de">>
    /\ GuessOf("German Dub 1080p") => pout.result = <<None, "de">>
    /\ GuessOf("English Original") => pout.result = <<"en", None>>

Populated(variant) ==
    /\ variant.audio_lang # None
    /\ variant.dub_lang # None
    /\ variant.subs # <<>>

\* C17: tag_variant never changes an audio_lang, a dub_lang or a list of
\* subtitles that its input already had; a variant that has all three is
\* left as it was, and so is any variant when tag_variant is called on it
\* for the second time.
TagVariantKeepsPopulated ==
    pout.op = "tag_variant" =>
        /\ pout.before.audio_lang # None =>
               pin.variant.audio_lang = pout.before.audio_lang
        /\ pout.before.dub_lang # None =>
               pin.variant.dub_lang = pout.before.dub_lang
        /\ pout.before.subs # <<>> => pin.variant.subs = pout.before.subs
        /\ Populated(pout.before) => pin.variant = pout.before
        /\ pout.calls >= 2 => pin.variant = pout.before

\* The variant of the repository's test, whose label names other languages
\* than its fields, after the second call.
TagVariantWitness ==
    /\ pout.op = "tag_variant"
    /\ pout.calls = 2
    /\ pin.variant.label = "English German Dub"
    /\ pin.variant.audio_lang = "en"
    /\ pin.variant.dub_lang = "de"
    /\ pin.variant.subs # <<>>

StripOf(name) == pout.op = "strip_language_tag_suffix" /\ pin.name = name

\* C18: strip_language_tag_suffix removes every known language tag from the
\* bracket tags at the end of a name and keeps the other tags:
\* "Episode [GerDub]" and "Episode [Dub:EN]" become "Episode", and
\* "Episode [GerDub] [Extra]" becomes "Episode [Extra]".
StripRemovesLanguageTags ==
    /\ StripOf("Episode [GerDub]") => pout.result = "Episode"
    /\ StripOf("Episode [Dub:EN]") => pout.result = "Episode"
    /\ StripOf("Episode [GerDub] [Extra]") => pout.result = "Episode [Extra]"

=============================================================================
